---- MODULE Spec2Model ----
(***************************************************************************)
(* design-to-code: a model of the node -> component translation.           *)
(*                                                                         *)
(* A string is a sequence of characters; a character is a string that      *)
(* stands for one UTF-16 code unit.  Generated source text is a sequence   *)
(* of tokens: the literal                                                  *)
(* fragments of the code's template strings are single tokens, the         *)
(* interpolated values are the characters (or the formatted numbers) the   *)
(* code interpolates.  Concatenating the tokens gives the text the code    *)
(* emits.                                                                  *)
(***************************************************************************)
EXTENDS Integers, Sequences, FiniteSets, TLC

VARIABLES
    pc,             \* position of the running operation
    unicode,        \* the Unicode version of the runtime the program runs on
    rawName,        \* a raw node name handed to the identity functions
    displayName,    \* converter.ts: toPascalCase(rawName)
    fileSlug,       \* converter.ts: sanitizeFileName(rawName)
    dtcName,        \* DesignToCode: toPascalCase(sanitizeName(rawName))
    figmaData,      \* the FigmaFile handed to convertFigmaToCode: [nodes |-> ...]
    frameworkArg,   \* the framework argument
    converter,      \* the DesignToCode object: its config field
    results,        \* what the calls of convertFigmaToCode returned, the last two
    designs,        \* what the calls of processDesign returned, the last two
    componentsObject, \* convertFigmaToCode: the components object of the call that runs
    calls,          \* the library calls that have returned, the last three
    todo,           \* the nodes, or the entries, the running loop has still to visit
    disk,           \* the files of the output directory, in the order first written
    componentCount, \* handleConvert: the components written so far
    generatedFrom,  \* the nodes generateComponent was called on, in order
    argv,           \* what the command was started with
    jsonFiles,      \* handleBatch: the JSON files the loop has still to take
    visited,        \* handleBatch: the files the loop has taken, in order
    report,         \* what the command has printed, in order
    exitCode,       \* the code process.exit was called with, if it was
    outDir          \* the output directory exists

vars == <<pc, unicode, rawName, displayName, fileSlug, dtcName,
          figmaData, frameworkArg, converter, results, designs, componentsObject, calls,
          todo, disk, componentCount, generatedFrom,
          argv, jsonFiles, visited, report, exitCode, outDir>>

nameVars == <<unicode, rawName, displayName, fileSlug, dtcName>>
libraryVars == <<figmaData, frameworkArg, converter, results, designs, componentsObject, calls>>
driverVars == <<todo, disk, componentCount, generatedFrom>>
cliVars == <<argv, jsonFiles, visited, report, exitCode, outDir>>

(***************************************************************************)
(* Bounds                                                                  *)
(***************************************************************************)
MaxNameLen == 3
LongRepeat == 26
MaxNodes == 2
MaxKids == 2
MaxTreeNodes == 3
MaxFiles == 2

(***************************************************************************)
(* Characters                                                              *)
(***************************************************************************)
\* A character is one UTF-16 code unit of the Basic Multilingual Plane;
\* the surrogate code units, and with them the characters of the other
\* planes, are outside the alphabet.  A printable ASCII or Latin-1
\* character is written as itself and the white space of ASCII by its
\* escape ("\t"); any other one, and the grave accent, is written by its
\* code point ("U+0178").
\*
\* The case mappings and the properties Cased and Case_Ignorable are those
\* of the Unicode version of the runtime (variable unicode): 14.0 (Node 16),
\* 15.1 (Node 18) and 17.0 (Node 20 and 22).  A table is a function of the
\* version; its entries of Unicode 14 are in every version.
\*
\* the letters with a one-to-one case mapping, lower case and upper case
\* at the same place: ASCII, then Latin-1, then the rest of the plane, then
\* the pairs Unicode 17 has added
LowerSeq ==
    LET unicode14 ==
            <<"a", "b", "c", "d", "e", "f", "g", "h", "i", "j", "k", "l", "m", "n",
              "o", "p", "q", "r", "s", "t", "u", "v", "w", "x", "y", "z", "à", "á",
              "â", "ã", "ä", "å", "æ", "ç", "è", "é", "ê", "ë", "ì", "í", "î", "ï",
              "ð", "ñ", "ò", "ó", "ô", "õ", "ö", "ø", "ù", "ú", "û", "ü", "ý", "þ",
              "U+0101", "U+0103", "U+0105", "U+0107", "U+0109", "U+010B", "U+010D",
              "U+010F", "U+0111", "U+0113", "U+0115", "U+0117", "U+0119", "U+011B",
              "U+011D", "U+011F", "U+0121", "U+0123", "U+0125", "U+0127", "U+0129",
              "U+012B", "U+012D", "U+012F", "U+0133", "U+0135", "U+0137", "U+013A",
              "U+013C", "U+013E", "U+0140", "U+0142", "U+0144", "U+0146", "U+0148",
              "U+014B", "U+014D", "U+014F", "U+0151", "U+0153", "U+0155", "U+0157",
              "U+0159", "U+015B", "U+015D", "U+015F", "U+0161", "U+0163", "U+0165",
              "U+0167", "U+0169", "U+016B", "U+016D", "U+016F", "U+0171", "U+0173",
              "U+0175", "U+0177", "ÿ", "U+017A", "U+017C", "U+017E", "U+0253",
              "U+0183", "U+0185", "U+0254", "U+0188", "U+0256", "U+0257", "U+018C",
              "U+01DD", "U+0259", "U+025B", "U+0192", "U+0260", "U+0263", "U+0269",
              "U+0268", "U+0199", "U+026F", "U+0272", "U+0275", "U+01A1", "U+01A3",
              "U+01A5", "U+0280", "U+01A8", "U+0283", "U+01AD", "U+0288", "U+01B0",
              "U+028A", "U+028B", "U+01B4", "U+01B6", "U+0292", "U+01B9", "U+01BD",
              "U+01C6", "U+01C9", "U+01CC", "U+01CE", "U+01D0", "U+01D2", "U+01D4",
              "U+01D6", "U+01D8", "U+01DA", "U+01DC", "U+01DF", "U+01E1", "U+01E3",
              "U+01E5", "U+01E7", "U+01E9", "U+01EB", "U+01ED", "U+01EF", "U+01F3",
              "U+01F5", "U+0195", "U+01BF", "U+01F9", "U+01FB", "U+01FD", "U+01FF",
              "U+0201", "U+0203", "U+0205", "U+0207", "U+0209", "U+020B", "U+020D",
              "U+020F", "U+0211", "U+0213", "U+0215", "U+0217", "U+0219", "U+021B",
              "U+021D", "U+021F", "U+019E", "U+0223", "U+0225", "U+0227", "U+0229",
              "U+022B", "U+022D", "U+022F", "U+0231", "U+0233", "U+2C65", "U+023C",
              "U+019A", "U+2C66", "U+0242", "U+0180", "U+0289", "U+028C", "U+0247",
              "U+0249", "U+024B", "U+024D", "U+024F", "U+0371", "U+0373", "U+0377",
              "U+03F3", "U+03AC", "U+03AD", "U+03AE", "U+03AF", "U+03CC", "U+03CD",
              "U+03CE", "U+03B1", "U+03B2", "U+03B3", "U+03B4", "U+03B5", "U+03B6",
              "U+03B7", "U+03B8", "U+03B9", "U+03BA", "U+03BB", "U+03BC", "U+03BD",
              "U+03BE", "U+03BF", "U+03C0", "U+03C1", "U+03C3", "U+03C4", "U+03C5",
              "U+03C6", "U+03C7", "U+03C8", "U+03C9", "U+03CA", "U+03CB", "U+03D7",
              "U+03D9", "U+03DB", "U+03DD", "U+03DF", "U+03E1", "U+03E3", "U+03E5",
              "U+03E7", "U+03E9", "U+03EB", "U+03ED", "U+03EF", "U+03F8", "U+03F2",
              "U+03FB", "U+037B", "U+037C", "U+037D", "U+0450", "U+0451", "U+0452",
              "U+0453", "U+0454", "U+0455", "U+0456", "U+0457", "U+0458", "U+0459",
              "U+045A", "U+045B", "U+045C", "U+045D", "U+045E", "U+045F", "U+0430",
              "U+0431", "U+0432", "U+0433", "U+0434", "U+0435", "U+0436", "U+0437",
              "U+0438", "U+0439", "U+043A", "U+043B", "U+043C", "U+043D", "U+043E",
              "U+043F", "U+0440", "U+0441", "U+0442", "U+0443", "U+0444", "U+0445",
              "U+0446", "U+0447", "U+0448", "U+0449", "U+044A", "U+044B", "U+044C",
              "U+044D", "U+044E", "U+044F", "U+0461", "U+0463", "U+0465", "U+0467",
              "U+0469", "U+046B", "U+046D", "U+046F", "U+0471", "U+0473", "U+0475",
              "U+0477", "U+0479", "U+047B", "U+047D", "U+047F", "U+0481", "U+048B",
              "U+048D", "U+048F", "U+0491", "U+0493", "U+0495", "U+0497", "U+0499",
              "U+049B", "U+049D", "U+049F", "U+04A1", "U+04A3", "U+04A5", "U+04A7",
              "U+04A9", "U+04AB", "U+04AD", "U+04AF", "U+04B1", "U+04B3", "U+04B5",
              "U+04B7", "U+04B9", "U+04BB", "U+04BD", "U+04BF", "U+04CF", "U+04C2",
              "U+04C4", "U+04C6", "U+04C8", "U+04CA", "U+04CC", "U+04CE", "U+04D1",
              "U+04D3", "U+04D5", "U+04D7", "U+04D9", "U+04DB", "U+04DD", "U+04DF",
              "U+04E1", "U+04E3", "U+04E5", "U+04E7", "U+04E9", "U+04EB", "U+04ED",
              "U+04EF", "U+04F1", "U+04F3", "U+04F5", "U+04F7", "U+04F9", "U+04FB",
              "U+04FD", "U+04FF", "U+0501", "U+0503", "U+0505", "U+0507", "U+0509",
              "U+050B", "U+050D", "U+050F", "U+0511", "U+0513", "U+0515", "U+0517",
              "U+0519", "U+051B", "U+051D", "U+051F", "U+0521", "U+0523", "U+0525",
              "U+0527", "U+0529", "U+052B", "U+052D", "U+052F", "U+0561", "U+0562",
              "U+0563", "U+0564", "U+0565", "U+0566", "U+0567", "U+0568", "U+0569",
              "U+056A", "U+056B", "U+056C", "U+056D", "U+056E", "U+056F", "U+0570",
              "U+0571", "U+0572", "U+0573", "U+0574", "U+0575", "U+0576", "U+0577",
              "U+0578", "U+0579", "U+057A", "U+057B", "U+057C", "U+057D", "U+057E",
              "U+057F", "U+0580", "U+0581", "U+0582", "U+0583", "U+0584", "U+0585",
              "U+0586", "U+2D00", "U+2D01", "U+2D02", "U+2D03", "U+2D04", "U+2D05",
              "U+2D06", "U+2D07", "U+2D08", "U+2D09", "U+2D0A", "U+2D0B", "U+2D0C",
              "U+2D0D", "U+2D0E", "U+2D0F", "U+2D10", "U+2D11", "U+2D12", "U+2D13",
              "U+2D14", "U+2D15", "U+2D16", "U+2D17", "U+2D18", "U+2D19", "U+2D1A",
              "U+2D1B", "U+2D1C", "U+2D1D", "U+2D1E", "U+2D1F", "U+2D20", "U+2D21",
              "U+2D22", "U+2D23", "U+2D24", "U+2D25", "U+2D27", "U+2D2D", "U+AB70",
              "U+AB71", "U+AB72", "U+AB73", "U+AB74", "U+AB75", "U+AB76", "U+AB77",
              "U+AB78", "U+AB79", "U+AB7A", "U+AB7B", "U+AB7C", "U+AB7D", "U+AB7E",
              "U+AB7F", "U+AB80", "U+AB81", "U+AB82", "U+AB83", "U+AB84", "U+AB85",
              "U+AB86", "U+AB87", "U+AB88", "U+AB89", "U+AB8A", "U+AB8B", "U+AB8C",
              "U+AB8D", "U+AB8E", "U+AB8F", "U+AB90", "U+AB91", "U+AB92", "U+AB93",
              "U+AB94", "U+AB95", "U+AB96", "U+AB97", "U+AB98", "U+AB99", "U+AB9A",
              "U+AB9B", "U+AB9C", "U+AB9D", "U+AB9E", "U+AB9F", "U+ABA0", "U+ABA1",
              "U+ABA2", "U+ABA3", "U+ABA4", "U+ABA5", "U+ABA6", "U+ABA7", "U+ABA8",
              "U+ABA9", "U+ABAA", "U+ABAB", "U+ABAC", "U+ABAD", "U+ABAE", "U+ABAF",
              "U+ABB0", "U+ABB1", "U+ABB2", "U+ABB3", "U+ABB4", "U+ABB5", "U+ABB6",
              "U+ABB7", "U+ABB8", "U+ABB9", "U+ABBA", "U+ABBB", "U+ABBC", "U+ABBD",
              "U+ABBE", "U+ABBF", "U+13F8", "U+13F9", "U+13FA", "U+13FB", "U+13FC",
              "U+13FD", "U+10D0", "U+10D1", "U+10D2", "U+10D3", "U+10D4", "U+10D5",
              "U+10D6", "U+10D7", "U+10D8", "U+10D9", "U+10DA", "U+10DB", "U+10DC",
              "U+10DD", "U+10DE", "U+10DF", "U+10E0", "U+10E1", "U+10E2", "U+10E3",
              "U+10E4", "U+10E5", "U+10E6", "U+10E7", "U+10E8", "U+10E9", "U+10EA",
              "U+10EB", "U+10EC", "U+10ED", "U+10EE", "U+10EF", "U+10F0", "U+10F1",
              "U+10F2", "U+10F3", "U+10F4", "U+10F5", "U+10F6", "U+10F7", "U+10F8",
              "U+10F9", "U+10FA", "U+10FD", "U+10FE", "U+10FF", "U+1E01", "U+1E03",
              "U+1E05", "U+1E07", "U+1E09", "U+1E0B", "U+1E0D", "U+1E0F", "U+1E11",
              "U+1E13", "U+1E15", "U+1E17", "U+1E19", "U+1E1B", "U+1E1D", "U+1E1F",
              "U+1E21", "U+1E23", "U+1E25", "U+1E27", "U+1E29", "U+1E2B", "U+1E2D",
              "U+1E2F", "U+1E31", "U+1E33", "U+1E35", "U+1E37", "U+1E39", "U+1E3B",
              "U+1E3D", "U+1E3F", "U+1E41", "U+1E43", "U+1E45", "U+1E47", "U+1E49",
              "U+1E4B", "U+1E4D", "U+1E4F", "U+1E51", "U+1E53", "U+1E55", "U+1E57",
              "U+1E59", "U+1E5B", "U+1E5D", "U+1E5F", "U+1E61", "U+1E63", "U+1E65",
              "U+1E67", "U+1E69", "U+1E6B", "U+1E6D", "U+1E6F", "U+1E71", "U+1E73",
              "U+1E75", "U+1E77", "U+1E79", "U+1E7B", "U+1E7D", "U+1E7F", "U+1E81",
              "U+1E83", "U+1E85", "U+1E87", "U+1E89", "U+1E8B", "U+1E8D", "U+1E8F",
              "U+1E91", "U+1E93", "U+1E95", "U+1EA1", "U+1EA3", "U+1EA5", "U+1EA7",
              "U+1EA9", "U+1EAB", "U+1EAD", "U+1EAF", "U+1EB1", "U+1EB3", "U+1EB5",
              "U+1EB7", "U+1EB9", "U+1EBB", "U+1EBD", "U+1EBF", "U+1EC1", "U+1EC3",
              "U+1EC5", "U+1EC7", "U+1EC9", "U+1ECB", "U+1ECD", "U+1ECF", "U+1ED1",
              "U+1ED3", "U+1ED5", "U+1ED7", "U+1ED9", "U+1EDB", "U+1EDD", "U+1EDF",
              "U+1EE1", "U+1EE3", "U+1EE5", "U+1EE7", "U+1EE9", "U+1EEB", "U+1EED",
              "U+1EEF", "U+1EF1", "U+1EF3", "U+1EF5", "U+1EF7", "U+1EF9", "U+1EFB",
              "U+1EFD", "U+1EFF", "U+1F00", "U+1F01", "U+1F02", "U+1F03", "U+1F04",
              "U+1F05", "U+1F06", "U+1F07", "U+1F10", "U+1F11", "U+1F12", "U+1F13",
              "U+1F14", "U+1F15", "U+1F20", "U+1F21", "U+1F22", "U+1F23", "U+1F24",
              "U+1F25", "U+1F26", "U+1F27", "U+1F30", "U+1F31", "U+1F32", "U+1F33",
              "U+1F34", "U+1F35", "U+1F36", "U+1F37", "U+1F40", "U+1F41", "U+1F42",
              "U+1F43", "U+1F44", "U+1F45", "U+1F51", "U+1F53", "U+1F55", "U+1F57",
              "U+1F60", "U+1F61", "U+1F62", "U+1F63", "U+1F64", "U+1F65", "U+1F66",
              "U+1F67", "U+1FB0", "U+1FB1", "U+1F70", "U+1F71", "U+1F72", "U+1F73",
              "U+1F74", "U+1F75", "U+1FD0", "U+1FD1", "U+1F76", "U+1F77", "U+1FE0",
              "U+1FE1", "U+1F7A", "U+1F7B", "U+1FE5", "U+1F78", "U+1F79", "U+1F7C",
              "U+1F7D", "U+214E", "U+2170", "U+2171", "U+2172", "U+2173", "U+2174",
              "U+2175", "U+2176", "U+2177", "U+2178", "U+2179", "U+217A", "U+217B",
              "U+217C", "U+217D", "U+217E", "U+217F", "U+2184", "U+24D0", "U+24D1",
              "U+24D2", "U+24D3", "U+24D4", "U+24D5", "U+24D6", "U+24D7", "U+24D8",
              "U+24D9", "U+24DA", "U+24DB", "U+24DC", "U+24DD", "U+24DE", "U+24DF",
              "U+24E0", "U+24E1", "U+24E2", "U+24E3", "U+24E4", "U+24E5", "U+24E6",
              "U+24E7", "U+24E8", "U+24E9", "U+2C30", "U+2C31", "U+2C32", "U+2C33",
              "U+2C34", "U+2C35", "U+2C36", "U+2C37", "U+2C38", "U+2C39", "U+2C3A",
              "U+2C3B", "U+2C3C", "U+2C3D", "U+2C3E", "U+2C3F", "U+2C40", "U+2C41",
              "U+2C42", "U+2C43", "U+2C44", "U+2C45", "U+2C46", "U+2C47", "U+2C48",
              "U+2C49", "U+2C4A", "U+2C4B", "U+2C4C", "U+2C4D", "U+2C4E", "U+2C4F",
              "U+2C50", "U+2C51", "U+2C52", "U+2C53", "U+2C54", "U+2C55", "U+2C56",
              "U+2C57", "U+2C58", "U+2C59", "U+2C5A", "U+2C5B", "U+2C5C", "U+2C5D",
              "U+2C5E", "U+2C5F", "U+2C61", "U+026B", "U+1D7D", "U+027D", "U+2C68",
              "U+2C6A", "U+2C6C", "U+0251", "U+0271", "U+0250", "U+0252", "U+2C73",
              "U+2C76", "U+023F", "U+0240", "U+2C81", "U+2C83", "U+2C85", "U+2C87",
              "U+2C89", "U+2C8B", "U+2C8D", "U+2C8F", "U+2C91", "U+2C93", "U+2C95",
              "U+2C97", "U+2C99", "U+2C9B", "U+2C9D", "U+2C9F", "U+2CA1", "U+2CA3",
              "U+2CA5", "U+2CA7", "U+2CA9", "U+2CAB", "U+2CAD", "U+2CAF", "U+2CB1",
              "U+2CB3", "U+2CB5", "U+2CB7", "U+2CB9", "U+2CBB", "U+2CBD", "U+2CBF",
              "U+2CC1", "U+2CC3", "U+2CC5", "U+2CC7", "U+2CC9", "U+2CCB", "U+2CCD",
              "U+2CCF", "U+2CD1", "U+2CD3", "U+2CD5", "U+2CD7", "U+2CD9", "U+2CDB",
              "U+2CDD", "U+2CDF", "U+2CE1", "U+2CE3", "U+2CEC", "U+2CEE", "U+2CF3",
              "U+A641", "U+A643", "U+A645", "U+A647", "U+A649", "U+A64B", "U+A64D",
              "U+A64F", "U+A651", "U+A653", "U+A655", "U+A657", "U+A659", "U+A65B",
              "U+A65D", "U+A65F", "U+A661", "U+A663", "U+A665", "U+A667", "U+A669",
              "U+A66B", "U+A66D", "U+A681", "U+A683", "U+A685", "U+A687", "U+A689",
              "U+A68B", "U+A68D", "U+A68F", "U+A691", "U+A693", "U+A695", "U+A697",
              "U+A699", "U+A69B", "U+A723", "U+A725", "U+A727", "U+A729", "U+A72B",
              "U+A72D", "U+A72F", "U+A733", "U+A735", "U+A737", "U+A739", "U+A73B",
              "U+A73D", "U+A73F", "U+A741", "U+A743", "U+A745", "U+A747", "U+A749",
              "U+A74B", "U+A74D", "U+A74F", "U+A751", "U+A753", "U+A755", "U+A757",
              "U+A759", "U+A75B", "U+A75D", "U+A75F", "U+A761", "U+A763", "U+A765",
              "U+A767", "U+A769", "U+A76B", "U+A76D", "U+A76F", "U+A77A", "U+A77C",
              "U+1D79", "U+A77F", "U+A781", "U+A783", "U+A785", "U+A787", "U+A78C",
              "U+0265", "U+A791", "U+A793", "U+A797", "U+A799", "U+A79B", "U+A79D",
              "U+A79F", "U+A7A1", "U+A7A3", "U+A7A5", "U+A7A7", "U+A7A9", "U+0266",
              "U+025C", "U+0261", "U+026C", "U+026A", "U+029E", "U+0287", "U+029D",
              "U+AB53", "U+A7B5", "U+A7B7", "U+A7B9", "U+A7BB", "U+A7BD", "U+A7BF",
              "U+A7C1", "U+A7C3", "U+A794", "U+0282", "U+1D8E", "U+A7C8", "U+A7CA",
              "U+A7D1", "U+A7D7", "U+A7D9", "U+A7F6", "U+FF41", "U+FF42", "U+FF43",
              "U+FF44", "U+FF45", "U+FF46", "U+FF47", "U+FF48", "U+FF49", "U+FF4A",
              "U+FF4B", "U+FF4C", "U+FF4D", "U+FF4E", "U+FF4F", "U+FF50", "U+FF51",
              "U+FF52", "U+FF53", "U+FF54", "U+FF55", "U+FF56", "U+FF57", "U+FF58",
              "U+FF59", "U+FF5A">>
        unicode17 ==
            <<"U+1C8A", "U+0264", "U+A7CD", "U+A7CF", "U+A7D3", "U+A7D5", "U+A7DB", "U+019B">>
    IN  [version \in {"14.0", "15.1", "17.0"} |->
            IF version = "17.0" THEN unicode14 \o unicode17 ELSE unicode14]

UpperSeq ==
    LET unicode14 ==
            <<"A", "B", "C", "D", "E", "F", "G", "H", "I", "J", "K", "L", "M", "N",
              "O", "P", "Q", "R", "S", "T", "U", "V", "W", "X", "Y", "Z", "À", "Á",
              "Â", "Ã", "Ä", "Å", "Æ", "Ç", "È", "É", "Ê", "Ë", "Ì", "Í", "Î", "Ï",
              "Ð", "Ñ", "Ò", "Ó", "Ô", "Õ", "Ö", "Ø", "Ù", "Ú", "Û", "Ü", "Ý", "Þ",
              "U+0100", "U+0102", "U+0104", "U+0106", "U+0108", "U+010A", "U+010C",
              "U+010E", "U+0110", "U+0112", "U+0114", "U+0116", "U+0118", "U+011A",
              "U+011C", "U+011E", "U+0120", "U+0122", "U+0124", "U+0126", "U+0128",
              "U+012A", "U+012C", "U+012E", "U+0132", "U+0134", "U+0136", "U+0139",
              "U+013B", "U+013D", "U+013F", "U+0141", "U+0143", "U+0145", "U+0147",
              "U+014A", "U+014C", "U+014E", "U+0150", "U+0152", "U+0154", "U+0156",
              "U+0158", "U+015A", "U+015C", "U+015E", "U+0160", "U+0162", "U+0164",
              "U+0166", "U+0168", "U+016A", "U+016C", "U+016E", "U+0170", "U+0172",
              "U+0174", "U+0176", "U+0178", "U+0179", "U+017B", "U+017D", "U+0181",
              "U+0182", "U+0184", "U+0186", "U+0187", "U+0189", "U+018A", "U+018B",
              "U+018E", "U+018F", "U+0190", "U+0191", "U+0193", "U+0194", "U+0196",
              "U+0197", "U+0198", "U+019C", "U+019D", "U+019F", "U+01A0", "U+01A2",
              "U+01A4", "U+01A6", "U+01A7", "U+01A9", "U+01AC", "U+01AE", "U+01AF",
              "U+01B1", "U+01B2", "U+01B3", "U+01B5", "U+01B7", "U+01B8", "U+01BC",
              "U+01C4", "U+01C7", "U+01CA", "U+01CD", "U+01CF", "U+01D1", "U+01D3",
              "U+01D5", "U+01D7", "U+01D9", "U+01DB", "U+01DE", "U+01E0", "U+01E2",
              "U+01E4", "U+01E6", "U+01E8", "U+01EA", "U+01EC", "U+01EE", "U+01F1",
              "U+01F4", "U+01F6", "U+01F7", "U+01F8", "U+01FA", "U+01FC", "U+01FE",
              "U+0200", "U+0202", "U+0204", "U+0206", "U+0208", "U+020A", "U+020C",
              "U+020E", "U+0210", "U+0212", "U+0214", "U+0216", "U+0218", "U+021A",
              "U+021C", "U+021E", "U+0220", "U+0222", "U+0224", "U+0226", "U+0228",
              "U+022A", "U+022C", "U+022E", "U+0230", "U+0232", "U+023A", "U+023B",
              "U+023D", "U+023E", "U+0241", "U+0243", "U+0244", "U+0245", "U+0246",
              "U+0248", "U+024A", "U+024C", "U+024E", "U+0370", "U+0372", "U+0376",
              "U+037F", "U+0386", "U+0388", "U+0389", "U+038A", "U+038C", "U+038E",
              "U+038F", "U+0391", "U+0392", "U+0393", "U+0394", "U+0395", "U+0396",
              "U+0397", "U+0398", "U+0399", "U+039A", "U+039B", "U+039C", "U+039D",
              "U+039E", "U+039F", "U+03A0", "U+03A1", "U+03A3", "U+03A4", "U+03A5",
              "U+03A6", "U+03A7", "U+03A8", "U+03A9", "U+03AA", "U+03AB", "U+03CF",
              "U+03D8", "U+03DA", "U+03DC", "U+03DE", "U+03E0", "U+03E2", "U+03E4",
              "U+03E6", "U+03E8", "U+03EA", "U+03EC", "U+03EE", "U+03F7", "U+03F9",
              "U+03FA", "U+03FD", "U+03FE", "U+03FF", "U+0400", "U+0401", "U+0402",
              "U+0403", "U+0404", "U+0405", "U+0406", "U+0407", "U+0408", "U+0409",
              "U+040A", "U+040B", "U+040C", "U+040D", "U+040E", "U+040F", "U+0410",
              "U+0411", "U+0412", "U+0413", "U+0414", "U+0415", "U+0416", "U+0417",
              "U+0418", "U+0419", "U+041A", "U+041B", "U+041C", "U+041D", "U+041E",
              "U+041F", "U+0420", "U+0421", "U+0422", "U+0423", "U+0424", "U+0425",
              "U+0426", "U+0427", "U+0428", "U+0429", "U+042A", "U+042B", "U+042C",
              "U+042D", "U+042E", "U+042F", "U+0460", "U+0462", "U+0464", "U+0466",
              "U+0468", "U+046A", "U+046C", "U+046E", "U+0470", "U+0472", "U+0474",
              "U+0476", "U+0478", "U+047A", "U+047C", "U+047E", "U+0480", "U+048A",
              "U+048C", "U+048E", "U+0490", "U+0492", "U+0494", "U+0496", "U+0498",
              "U+049A", "U+049C", "U+049E", "U+04A0", "U+04A2", "U+04A4", "U+04A6",
              "U+04A8", "U+04AA", "U+04AC", "U+04AE", "U+04B0", "U+04B2", "U+04B4",
              "U+04B6", "U+04B8", "U+04BA", "U+04BC", "U+04BE", "U+04C0", "U+04C1",
              "U+04C3", "U+04C5", "U+04C7", "U+04C9", "U+04CB", "U+04CD", "U+04D0",
              "U+04D2", "U+04D4", "U+04D6", "U+04D8", "U+04DA", "U+04DC", "U+04DE",
              "U+04E0", "U+04E2", "U+04E4", "U+04E6", "U+04E8", "U+04EA", "U+04EC",
              "U+04EE", "U+04F0", "U+04F2", "U+04F4", "U+04F6", "U+04F8", "U+04FA",
              "U+04FC", "U+04FE", "U+0500", "U+0502", "U+0504", "U+0506", "U+0508",
              "U+050A", "U+050C", "U+050E", "U+0510", "U+0512", "U+0514", "U+0516",
              "U+0518", "U+051A", "U+051C", "U+051E", "U+0520", "U+0522", "U+0524",
              "U+0526", "U+0528", "U+052A", "U+052C", "U+052E", "U+0531", "U+0532",
              "U+0533", "U+0534", "U+0535", "U+0536", "U+0537", "U+0538", "U+0539",
              "U+053A", "U+053B", "U+053C", "U+053D", "U+053E", "U+053F", "U+0540",
              "U+0541", "U+0542", "U+0543", "U+0544", "U+0545", "U+0546", "U+0547",
              "U+0548", "U+0549", "U+054A", "U+054B", "U+054C", "U+054D", "U+054E",
              "U+054F", "U+0550", "U+0551", "U+0552", "U+0553", "U+0554", "U+0555",
              "U+0556", "U+10A0", "U+10A1", "U+10A2", "U+10A3", "U+10A4", "U+10A5",
              "U+10A6", "U+10A7", "U+10A8", "U+10A9", "U+10AA", "U+10AB", "U+10AC",
              "U+10AD", "U+10AE", "U+10AF", "U+10B0", "U+10B1", "U+10B2", "U+10B3",
              "U+10B4", "U+10B5", "U+10B6", "U+10B7", "U+10B8", "U+10B9", "U+10BA",
              "U+10BB", "U+10BC", "U+10BD", "U+10BE", "U+10BF", "U+10C0", "U+10C1",
              "U+10C2", "U+10C3", "U+10C4", "U+10C5", "U+10C7", "U+10CD", "U+13A0",
              "U+13A1", "U+13A2", "U+13A3", "U+13A4", "U+13A5", "U+13A6", "U+13A7",
              "U+13A8", "U+13A9", "U+13AA", "U+13AB", "U+13AC", "U+13AD", "U+13AE",
              "U+13AF", "U+13B0", "U+13B1", "U+13B2", "U+13B3", "U+13B4", "U+13B5",
              "U+13B6", "U+13B7", "U+13B8", "U+13B9", "U+13BA", "U+13BB", "U+13BC",
              "U+13BD", "U+13BE", "U+13BF", "U+13C0", "U+13C1", "U+13C2", "U+13C3",
              "U+13C4", "U+13C5", "U+13C6", "U+13C7", "U+13C8", "U+13C9", "U+13CA",
              "U+13CB", "U+13CC", "U+13CD", "U+13CE", "U+13CF", "U+13D0", "U+13D1",
              "U+13D2", "U+13D3", "U+13D4", "U+13D5", "U+13D6", "U+13D7", "U+13D8",
              "U+13D9", "U+13DA", "U+13DB", "U+13DC", "U+13DD", "U+13DE", "U+13DF",
              "U+13E0", "U+13E1", "U+13E2", "U+13E3", "U+13E4", "U+13E5", "U+13E6",
              "U+13E7", "U+13E8", "U+13E9", "U+13EA", "U+13EB", "U+13EC", "U+13ED",
              "U+13EE", "U+13EF", "U+13F0", "U+13F1", "U+13F2", "U+13F3", "U+13F4",
              "U+13F5", "U+1C90", "U+1C91", "U+1C92", "U+1C93", "U+1C94", "U+1C95",
              "U+1C96", "U+1C97", "U+1C98", "U+1C99", "U+1C9A", "U+1C9B", "U+1C9C",
              "U+1C9D", "U+1C9E", "U+1C9F", "U+1CA0", "U+1CA1", "U+1CA2", "U+1CA3",
              "U+1CA4", "U+1CA5", "U+1CA6", "U+1CA7", "U+1CA8", "U+1CA9", "U+1CAA",
              "U+1CAB", "U+1CAC", "U+1CAD", "U+1CAE", "U+1CAF", "U+1CB0", "U+1CB1",
              "U+1CB2", "U+1CB3", "U+1CB4", "U+1CB5", "U+1CB6", "U+1CB7", "U+1CB8",
              "U+1CB9", "U+1CBA", "U+1CBD", "U+1CBE", "U+1CBF", "U+1E00", "U+1E02",
              "U+1E04", "U+1E06", "U+1E08", "U+1E0A", "U+1E0C", "U+1E0E", "U+1E10",
              "U+1E12", "U+1E14", "U+1E16", "U+1E18", "U+1E1A", "U+1E1C", "U+1E1E",
              "U+1E20", "U+1E22", "U+1E24", "U+1E26", "U+1E28", "U+1E2A", "U+1E2C",
              "U+1E2E", "U+1E30", "U+1E32", "U+1E34", "U+1E36", "U+1E38", "U+1E3A",
              "U+1E3C", "U+1E3E", "U+1E40", "U+1E42", "U+1E44", "U+1E46", "U+1E48",
              "U+1E4A", "U+1E4C", "U+1E4E", "U+1E50", "U+1E52", "U+1E54", "U+1E56",
              "U+1E58", "U+1E5A", "U+1E5C", "U+1E5E", "U+1E60", "U+1E62", "U+1E64",
              "U+1E66", "U+1E68", "U+1E6A", "U+1E6C", "U+1E6E", "U+1E70", "U+1E72",
              "U+1E74", "U+1E76", "U+1E78", "U+1E7A", "U+1E7C", "U+1E7E", "U+1E80",
              "U+1E82", "U+1E84", "U+1E86", "U+1E88", "U+1E8A", "U+1E8C", "U+1E8E",
              "U+1E90", "U+1E92", "U+1E94", "U+1EA0", "U+1EA2", "U+1EA4", "U+1EA6",
              "U+1EA8", "U+1EAA", "U+1EAC", "U+1EAE", "U+1EB0", "U+1EB2", "U+1EB4",
              "U+1EB6", "U+1EB8", "U+1EBA", "U+1EBC", "U+1EBE", "U+1EC0", "U+1EC2",
              "U+1EC4", "U+1EC6", "U+1EC8", "U+1ECA", "U+1ECC", "U+1ECE", "U+1ED0",
              "U+1ED2", "U+1ED4", "U+1ED6", "U+1ED8", "U+1EDA", "U+1EDC", "U+1EDE",
              "U+1EE0", "U+1EE2", "U+1EE4", "U+1EE6", "U+1EE8", "U+1EEA", "U+1EEC",
              "U+1EEE", "U+1EF0", "U+1EF2", "U+1EF4", "U+1EF6", "U+1EF8", "U+1EFA",
              "U+1EFC", "U+1EFE", "U+1F08", "U+1F09", "U+1F0A", "U+1F0B", "U+1F0C",
              "U+1F0D", "U+1F0E", "U+1F0F", "U+1F18", "U+1F19", "U+1F1A", "U+1F1B",
              "U+1F1C", "U+1F1D", "U+1F28", "U+1F29", "U+1F2A", "U+1F2B", "U+1F2C",
              "U+1F2D", "U+1F2E", "U+1F2F", "U+1F38", "U+1F39", "U+1F3A", "U+1F3B",
              "U+1F3C", "U+1F3D", "U+1F3E", "U+1F3F", "U+1F48", "U+1F49", "U+1F4A",
              "U+1F4B", "U+1F4C", "U+1F4D", "U+1F59", "U+1F5B", "U+1F5D", "U+1F5F",
              "U+1F68", "U+1F69", "U+1F6A", "U+1F6B", "U+1F6C", "U+1F6D", "U+1F6E",
              "U+1F6F", "U+1FB8", "U+1FB9", "U+1FBA", "U+1FBB", "U+1FC8", "U+1FC9",
              "U+1FCA", "U+1FCB", "U+1FD8", "U+1FD9", "U+1FDA", "U+1FDB", "U+1FE8",
              "U+1FE9", "U+1FEA", "U+1FEB", "U+1FEC", "U+1FF8", "U+1FF9", "U+1FFA",
              "U+1FFB", "U+2132", "U+2160", "U+2161", "U+2162", "U+2163", "U+2164",
              "U+2165", "U+2166", "U+2167", "U+2168", "U+2169", "U+216A", "U+216B",
              "U+216C", "U+216D", "U+216E", "U+216F", "U+2183", "U+24B6", "U+24B7",
              "U+24B8", "U+24B9", "U+24BA", "U+24BB", "U+24BC", "U+24BD", "U+24BE",
              "U+24BF", "U+24C0", "U+24C1", "U+24C2", "U+24C3", "U+24C4", "U+24C5",
              "U+24C6", "U+24C7", "U+24C8", "U+24C9", "U+24CA", "U+24CB", "U+24CC",
              "U+24CD", "U+24CE", "U+24CF", "U+2C00", "U+2C01", "U+2C02", "U+2C03",
              "U+2C04", "U+2C05", "U+2C06", "U+2C07", "U+2C08", "U+2C09", "U+2C0A",
              "U+2C0B", "U+2C0C", "U+2C0D", "U+2C0E", "U+2C0F", "U+2C10", "U+2C11",
              "U+2C12", "U+2C13", "U+2C14", "U+2C15", "U+2C16", "U+2C17", "U+2C18",
              "U+2C19", "U+2C1A", "U+2C1B", "U+2C1C", "U+2C1D", "U+2C1E", "U+2C1F",
              "U+2C20", "U+2C21", "U+2C22", "U+2C23", "U+2C24", "U+2C25", "U+2C26",
              "U+2C27", "U+2C28", "U+2C29", "U+2C2A", "U+2C2B", "U+2C2C", "U+2C2D",
              "U+2C2E", "U+2C2F", "U+2C60", "U+2C62", "U+2C63", "U+2C64", "U+2C67",
              "U+2C69", "U+2C6B", "U+2C6D", "U+2C6E", "U+2C6F", "U+2C70", "U+2C72",
              "U+2C75", "U+2C7E", "U+2C7F", "U+2C80", "U+2C82", "U+2C84", "U+2C86",
              "U+2C88", "U+2C8A", "U+2C8C", "U+2C8E", "U+2C90", "U+2C92", "U+2C94",
              "U+2C96", "U+2C98", "U+2C9A", "U+2C9C", "U+2C9E", "U+2CA0", "U+2CA2",
              "U+2CA4", "U+2CA6", "U+2CA8", "U+2CAA", "U+2CAC", "U+2CAE", "U+2CB0",
              "U+2CB2", "U+2CB4", "U+2CB6", "U+2CB8", "U+2CBA", "U+2CBC", "U+2CBE",
              "U+2CC0", "U+2CC2", "U+2CC4", "U+2CC6", "U+2CC8", "U+2CCA", "U+2CCC",
              "U+2CCE", "U+2CD0", "U+2CD2", "U+2CD4", "U+2CD6", "U+2CD8", "U+2CDA",
              "U+2CDC", "U+2CDE", "U+2CE0", "U+2CE2", "U+2CEB", "U+2CED", "U+2CF2",
              "U+A640", "U+A642", "U+A644", "U+A646", "U+A648", "U+A64A", "U+A64C",
              "U+A64E", "U+A650", "U+A652", "U+A654", "U+A656", "U+A658", "U+A65A",
              "U+A65C", "U+A65E", "U+A660", "U+A662", "U+A664", "U+A666", "U+A668",
              "U+A66A", "U+A66C", "U+A680", "U+A682", "U+A684", "U+A686", "U+A688",
              "U+A68A", "U+A68C", "U+A68E", "U+A690", "U+A692", "U+A694", "U+A696",
              "U+A698", "U+A69A", "U+A722", "U+A724", "U+A726", "U+A728", "U+A72A",
              "U+A72C", "U+A72E", "U+A732", "U+A734", "U+A736", "U+A738", "U+A73A",
              "U+A73C", "U+A73E", "U+A740", "U+A742", "U+A744", "U+A746", "U+A748",
              "U+A74A", "U+A74C", "U+A74E", "U+A750", "U+A752", "U+A754", "U+A756",
              "U+A758", "U+A75A", "U+A75C", "U+A75E", "U+A760", "U+A762", "U+A764",
              "U+A766", "U+A768", "U+A76A", "U+A76C", "U+A76E", "U+A779", "U+A77B",
              "U+A77D", "U+A77E", "U+A780", "U+A782", "U+A784", "U+A786", "U+A78B",
              "U+A78D", "U+A790", "U+A792", "U+A796", "U+A798", "U+A79A", "U+A79C",
              "U+A79E", "U+A7A0", "U+A7A2", "U+A7A4", "U+A7A6", "U+A7A8", "U+A7AA",
              "U+A7AB", "U+A7AC", "U+A7AD", "U+A7AE", "U+A7B0", "U+A7B1", "U+A7B2",
              "U+A7B3", "U+A7B4", "U+A7B6", "U+A7B8", "U+A7BA", "U+A7BC", "U+A7BE",
              "U+A7C0", "U+A7C2", "U+A7C4", "U+A7C5", "U+A7C6", "U+A7C7", "U+A7C9",
              "U+A7D0", "U+A7D6", "U+A7D8", "U+A7F5", "U+FF21", "U+FF22", "U+FF23",
              "U+FF24", "U+FF25", "U+FF26", "U+FF27", "U+FF28", "U+FF29", "U+FF2A",
              "U+FF2B", "U+FF2C", "U+FF2D", "U+FF2E", "U+FF2F", "U+FF30", "U+FF31",
              "U+FF32", "U+FF33", "U+FF34", "U+FF35", "U+FF36", "U+FF37", "U+FF38",
              "U+FF39", "U+FF3A">>
        unicode17 ==
            <<"U+1C89", "U+A7CB", "U+A7CC", "U+A7CE", "U+A7D2", "U+A7D4", "U+A7DA", "U+A7DC">>
    IN  [version \in DOMAIN LowerSeq |->
            IF version = "17.0" THEN unicode14 \o unicode17 ELSE unicode14]

\* the ASCII letters and digits
LowerChars == {LowerSeq["14.0"][i] : i \in 1..26}
UpperChars == {UpperSeq["14.0"][i] : i \in 1..26}
DigitChars == {"0", "1", "2", "3", "4", "5", "6", "7", "8", "9"}

\* the regular expression class \s: the ASCII white space, U+00A0, U+1680,
\* U+2000 to U+200A, U+2028, U+2029, U+202F, U+205F, U+3000 and U+FEFF
SpaceChars ==
    {" ", "\t", "\n", "\r", "\f", "U+000B", "U+00A0", "U+1680",
     "U+2000", "U+2001", "U+2002", "U+2003", "U+2004", "U+2005", "U+2006",
     "U+2007", "U+2008", "U+2009", "U+200A", "U+2028", "U+2029", "U+202F",
     "U+205F", "U+3000", "U+FEFF"}

\* the characters whose lower case is not the partner of a one-to-one
\* pair, with their lower case: U+0130 gives two characters, the Kelvin
\* sign gives "k"
LowerSpecial ==
    << <<"U+0130", <<"i", "U+0307">> >>, <<"U+01C5", <<"U+01C6">> >>,
       <<"U+01C8", <<"U+01C9">> >>, <<"U+01CB", <<"U+01CC">> >>,
       <<"U+01F2", <<"U+01F3">> >>, <<"U+03F4", <<"U+03B8">> >>,
       <<"U+1E9E", <<"ß">> >>, <<"U+1F88", <<"U+1F80">> >>,
       <<"U+1F89", <<"U+1F81">> >>, <<"U+1F8A", <<"U+1F82">> >>,
       <<"U+1F8B", <<"U+1F83">> >>, <<"U+1F8C", <<"U+1F84">> >>,
       <<"U+1F8D", <<"U+1F85">> >>, <<"U+1F8E", <<"U+1F86">> >>,
       <<"U+1F8F", <<"U+1F87">> >>, <<"U+1F98", <<"U+1F90">> >>,
       <<"U+1F99", <<"U+1F91">> >>, <<"U+1F9A", <<"U+1F92">> >>,
       <<"U+1F9B", <<"U+1F93">> >>, <<"U+1F9C", <<"U+1F94">> >>,
       <<"U+1F9D", <<"U+1F95">> >>, <<"U+1F9E", <<"U+1F96">> >>,
       <<"U+1F9F", <<"U+1F97">> >>, <<"U+1FA8", <<"U+1FA0">> >>,
       <<"U+1FA9", <<"U+1FA1">> >>, <<"U+1FAA", <<"U+1FA2">> >>,
       <<"U+1FAB", <<"U+1FA3">> >>, <<"U+1FAC", <<"U+1FA4">> >>,
       <<"U+1FAD", <<"U+1FA5">> >>, <<"U+1FAE", <<"U+1FA6">> >>,
       <<"U+1FAF", <<"U+1FA7">> >>, <<"U+1FBC", <<"U+1FB3">> >>,
       <<"U+1FCC", <<"U+1FC3">> >>, <<"U+1FFC", <<"U+1FF3">> >>,
       <<"U+2126", <<"U+03C9">> >>, <<"U+212A", <<"k">> >>, <<"U+212B", <<"å">> >> >>

\* the characters whose upper case is not the partner of a one-to-one
\* pair, with their upper case: a sharp s gives "SS", a dotless i gives "I"
UpperSpecial ==
    << <<"µ", <<"U+039C">> >>, <<"ß", <<"S", "S">> >>, <<"U+0131", <<"I">> >>,
       <<"U+0149", <<"U+02BC", "N">> >>, <<"U+017F", <<"S">> >>,
       <<"U+01C5", <<"U+01C4">> >>, <<"U+01C8", <<"U+01C7">> >>,
       <<"U+01CB", <<"U+01CA">> >>, <<"U+01F0", <<"J", "U+030C">> >>,
       <<"U+01F2", <<"U+01F1">> >>, <<"U+0345", <<"U+0399">> >>,
       <<"U+0390", <<"U+0399", "U+0308", "U+0301">> >>,
       <<"U+03B0", <<"U+03A5", "U+0308", "U+0301">> >>,
       <<"U+03C2", <<"U+03A3">> >>, <<"U+03D0", <<"U+0392">> >>,
       <<"U+03D1", <<"U+0398">> >>, <<"U+03D5", <<"U+03A6">> >>,
       <<"U+03D6", <<"U+03A0">> >>, <<"U+03F0", <<"U+039A">> >>,
       <<"U+03F1", <<"U+03A1">> >>, <<"U+03F5", <<"U+0395">> >>,
       <<"U+0587", <<"U+0535", "U+0552">> >>, <<"U+1C80", <<"U+0412">> >>,
       <<"U+1C81", <<"U+0414">> >>, <<"U+1C82", <<"U+041E">> >>,
       <<"U+1C83", <<"U+0421">> >>, <<"U+1C84", <<"U+0422">> >>,
       <<"U+1C85", <<"U+0422">> >>, <<"U+1C86", <<"U+042A">> >>,
       <<"U+1C87", <<"U+0462">> >>, <<"U+1C88", <<"U+A64A">> >>,
       <<"U+1E96", <<"H", "U+0331">> >>, <<"U+1E97", <<"T", "U+0308">> >>,
       <<"U+1E98", <<"W", "U+030A">> >>, <<"U+1E99", <<"Y", "U+030A">> >>,
       <<"U+1E9A", <<"A", "U+02BE">> >>, <<"U+1E9B", <<"U+1E60">> >>,
       <<"U+1F50", <<"U+03A5", "U+0313">> >>,
       <<"U+1F52", <<"U+03A5", "U+0313", "U+0300">> >>,
       <<"U+1F54", <<"U+03A5", "U+0313", "U+0301">> >>,
       <<"U+1F56", <<"U+03A5", "U+0313", "U+0342">> >>,
       <<"U+1F80", <<"U+1F08", "U+0399">> >>,
       <<"U+1F81", <<"U+1F09", "U+0399">> >>,
       <<"U+1F82", <<"U+1F0A", "U+0399">> >>,
       <<"U+1F83", <<"U+1F0B", "U+0399">> >>,
       <<"U+1F84", <<"U+1F0C", "U+0399">> >>,
       <<"U+1F85", <<"U+1F0D", "U+0399">> >>,
       <<"U+1F86", <<"U+1F0E", "U+0399">> >>,
       <<"U+1F87", <<"U+1F0F", "U+0399">> >>,
       <<"U+1F88", <<"U+1F08", "U+0399">> >>,
       <<"U+1F89", <<"U+1F09", "U+0399">> >>,
       <<"U+1F8A", <<"U+1F0A", "U+0399">> >>,
       <<"U+1F8B", <<"U+1F0B", "U+0399">> >>,
       <<"U+1F8C", <<"U+1F0C", "U+0399">> >>,
       <<"U+1F8D", <<"U+1F0D", "U+0399">> >>,
       <<"U+1F8E", <<"U+1F0E", "U+0399">> >>,
       <<"U+1F8F", <<"U+1F0F", "U+0399">> >>,
       <<"U+1F90", <<"U+1F28", "U+0399">> >>,
       <<"U+1F91", <<"U+1F29", "U+0399">> >>,
       <<"U+1F92", <<"U+1F2A", "U+0399">> >>,
       <<"U+1F93", <<"U+1F2B", "U+0399">> >>,
       <<"U+1F94", <<"U+1F2C", "U+0399">> >>,
       <<"U+1F95", <<"U+1F2D", "U+0399">> >>,
       <<"U+1F96", <<"U+1F2E", "U+0399">> >>,
       <<"U+1F97", <<"U+1F2F", "U+0399">> >>,
       <<"U+1F98", <<"U+1F28", "U+0399">> >>,
       <<"U+1F99", <<"U+1F29", "U+0399">> >>,
       <<"U+1F9A", <<"U+1F2A", "U+0399">> >>,
       <<"U+1F9B", <<"U+1F2B", "U+0399">> >>,
       <<"U+1F9C", <<"U+1F2C", "U+0399">> >>,
       <<"U+1F9D", <<"U+1F2D", "U+0399">> >>,
       <<"U+1F9E", <<"U+1F2E", "U+0399">> >>,
       <<"U+1F9F", <<"U+1F2F", "U+0399">> >>,
       <<"U+1FA0", <<"U+1F68", "U+0399">> >>,
       <<"U+1FA1", <<"U+1F69", "U+0399">> >>,
       <<"U+1FA2", <<"U+1F6A", "U+0399">> >>,
       <<"U+1FA3", <<"U+1F6B", "U+0399">> >>,
       <<"U+1FA4", <<"U+1F6C", "U+0399">> >>,
       <<"U+1FA5", <<"U+1F6D", "U+0399">> >>,
       <<"U+1FA6", <<"U+1F6E", "U+0399">> >>,
       <<"U+1FA7", <<"U+1F6F", "U+0399">> >>,
       <<"U+1FA8", <<"U+1F68", "U+0399">> >>,
       <<"U+1FA9", <<"U+1F69", "U+0399">> >>,
       <<"U+1FAA", <<"U+1F6A", "U+0399">> >>,
       <<"U+1FAB", <<"U+1F6B", "U+0399">> >>,
       <<"U+1FAC", <<"U+1F6C", "U+0399">> >>,
       <<"U+1FAD", <<"U+1F6D", "U+0399">> >>,
       <<"U+1FAE", <<"U+1F6E", "U+0399">> >>,
       <<"U+1FAF", <<"U+1F6F", "U+0399">> >>,
       <<"U+1FB2", <<"U+1FBA", "U+0399">> >>,
       <<"U+1FB3", <<"U+0391", "U+0399">> >>,
       <<"U+1FB4", <<"U+0386", "U+0399">> >>,
       <<"U+1FB6", <<"U+0391", "U+0342">> >>,
       <<"U+1FB7", <<"U+0391", "U+0342", "U+0399">> >>,
       <<"U+1FBC", <<"U+0391", "U+0399">> >>, <<"U+1FBE", <<"U+0399">> >>,
       <<"U+1FC2", <<"U+1FCA", "U+0399">> >>,
       <<"U+1FC3", <<"U+0397", "U+0399">> >>,
       <<"U+1FC4", <<"U+0389", "U+0399">> >>,
       <<"U+1FC6", <<"U+0397", "U+0342">> >>,
       <<"U+1FC7", <<"U+0397", "U+0342", "U+0399">> >>,
       <<"U+1FCC", <<"U+0397", "U+0399">> >>,
       <<"U+1FD2", <<"U+0399", "U+0308", "U+0300">> >>,
       <<"U+1FD3", <<"U+0399", "U+0308", "U+0301">> >>,
       <<"U+1FD6", <<"U+0399", "U+0342">> >>,
       <<"U+1FD7", <<"U+0399", "U+0308", "U+0342">> >>,
       <<"U+1FE2", <<"U+03A5", "U+0308", "U+0300">> >>,
       <<"U+1FE3", <<"U+03A5", "U+0308", "U+0301">> >>,
       <<"U+1FE4", <<"U+03A1", "U+0313">> >>,
       <<"U+1FE6", <<"U+03A5", "U+0342">> >>,
       <<"U+1FE7", <<"U+03A5", "U+0308", "U+0342">> >>,
       <<"U+1FF2", <<"U+1FFA", "U+0399">> >>,
       <<"U+1FF3", <<"U+03A9", "U+0399">> >>,
       <<"U+1FF4", <<"U+038F", "U+0399">> >>,
       <<"U+1FF6", <<"U+03A9", "U+0342">> >>,
       <<"U+1FF7", <<"U+03A9", "U+0342", "U+0399">> >>,
       <<"U+1FFC", <<"U+03A9", "U+0399">> >>, <<"U+FB00", <<"F", "F">> >>,
       <<"U+FB01", <<"F", "I">> >>, <<"U+FB02", <<"F", "L">> >>,
       <<"U+FB03", <<"F", "F", "I">> >>, <<"U+FB04", <<"F", "F", "L">> >>,
       <<"U+FB05", <<"S", "T">> >>, <<"U+FB06", <<"S", "T">> >>,
       <<"U+FB13", <<"U+0544", "U+0546">> >>,
       <<"U+FB14", <<"U+0544", "U+0535">> >>,
       <<"U+FB15", <<"U+0544", "U+053B">> >>,
       <<"U+FB16", <<"U+054E", "U+0546">> >>,
       <<"U+FB17", <<"U+0544", "U+053D">> >> >>

\* the characters the rule for a final sigma looks through (Unicode
\* Case_Ignorable), by version
CaseIgnorable ==
    LET unicode14 ==
            {"'", ".", ":", "^", "U+0060", "¨", "U+00AD", "¯", "´", "·", "¸",
             "U+02B0", "U+02B1", "U+02B2", "U+02B3", "U+02B4", "U+02B5", "U+02B6",
             "U+02B7", "U+02B8", "U+02B9", "U+02BA", "U+02BB", "U+02BC", "U+02BD",
             "U+02BE", "U+02BF", "U+02C0", "U+02C1", "U+02C2", "U+02C3", "U+02C4",
             "U+02C5", "U+02C6", "U+02C7", "U+02C8", "U+02C9", "U+02CA", "U+02CB",
             "U+02CC", "U+02CD", "U+02CE", "U+02CF", "U+02D0", "U+02D1", "U+02D2",
             "U+02D3", "U+02D4", "U+02D5", "U+02D6", "U+02D7", "U+02D8", "U+02D9",
             "U+02DA", "U+02DB", "U+02DC", "U+02DD", "U+02DE", "U+02DF", "U+02E0",
             "U+02E1", "U+02E2", "U+02E3", "U+02E4", "U+02E5", "U+02E6", "U+02E7",
             "U+02E8", "U+02E9", "U+02EA", "U+02EB", "U+02EC", "U+02ED", "U+02EE",
             "U+02EF", "U+02F0", "U+02F1", "U+02F2", "U+02F3", "U+02F4", "U+02F5",
             "U+02F6", "U+02F7", "U+02F8", "U+02F9", "U+02FA", "U+02FB", "U+02FC",
             "U+02FD", "U+02FE", "U+02FF", "U+0300", "U+0301", "U+0302", "U+0303",
             "U+0304", "U+0305", "U+0306", "U+0307", "U+0308", "U+0309", "U+030A",
             "U+030B", "U+030C", "U+030D", "U+030E", "U+030F", "U+0310", "U+0311",
             "U+0312", "U+0313", "U+0314", "U+0315", "U+0316", "U+0317", "U+0318",
             "U+0319", "U+031A", "U+031B", "U+031C", "U+031D", "U+031E", "U+031F",
             "U+0320", "U+0321", "U+0322", "U+0323", "U+0324", "U+0325", "U+0326",
             "U+0327", "U+0328", "U+0329", "U+032A", "U+032B", "U+032C", "U+032D",
             "U+032E", "U+032F", "U+0330", "U+0331", "U+0332", "U+0333", "U+0334",
             "U+0335", "U+0336", "U+0337", "U+0338", "U+0339", "U+033A", "U+033B",
             "U+033C", "U+033D", "U+033E", "U+033F", "U+0340", "U+0341", "U+0342",
             "U+0343", "U+0344", "U+0345", "U+0346", "U+0347", "U+0348", "U+0349",
             "U+034A", "U+034B", "U+034C", "U+034D", "U+034E", "U+034F", "U+0350",
             "U+0351", "U+0352", "U+0353", "U+0354", "U+0355", "U+0356", "U+0357",
             "U+0358", "U+0359", "U+035A", "U+035B", "U+035C", "U+035D", "U+035E",
             "U+035F", "U+0360", "U+0361", "U+0362", "U+0363", "U+0364", "U+0365",
             "U+0366", "U+0367", "U+0368", "U+0369", "U+036A", "U+036B", "U+036C",
             "U+036D", "U+036E", "U+036F", "U+0374", "U+0375", "U+037A", "U+0384",
             "U+0385", "U+0387", "U+0483", "U+0484", "U+0485", "U+0486", "U+0487",
             "U+0488", "U+0489", "U+0559", "U+055F", "U+0591", "U+0592", "U+0593",
             "U+0594", "U+0595", "U+0596", "U+0597", "U+0598", "U+0599", "U+059A",
             "U+059B", "U+059C", "U+059D", "U+059E", "U+059F", "U+05A0", "U+05A1",
             "U+05A2", "U+05A3", "U+05A4", "U+05A5", "U+05A6", "U+05A7", "U+05A8",
             "U+05A9", "U+05AA", "U+05AB", "U+05AC", "U+05AD", "U+05AE", "U+05AF",
             "U+05B0", "U+05B1", "U+05B2", "U+05B3", "U+05B4", "U+05B5", "U+05B6",
             "U+05B7", "U+05B8", "U+05B9", "U+05BA", "U+05BB", "U+05BC", "U+05BD",
             "U+05BF", "U+05C1", "U+05C2", "U+05C4", "U+05C5", "U+05C7", "U+05F4",
             "U+0600", "U+0601", "U+0602", "U+0603", "U+0604", "U+0605", "U+0610",
             "U+0611", "U+0612", "U+0613", "U+0614", "U+0615", "U+0616", "U+0617",
             "U+0618", "U+0619", "U+061A", "U+061C", "U+0640", "U+064B", "U+064C",
             "U+064D", "U+064E", "U+064F", "U+0650", "U+0651", "U+0652", "U+0653",
             "U+0654", "U+0655", "U+0656", "U+0657", "U+0658", "U+0659", "U+065A",
             "U+065B", "U+065C", "U+065D", "U+065E", "U+065F", "U+0670", "U+06D6",
             "U+06D7", "U+06D8", "U+06D9", "U+06DA", "U+06DB", "U+06DC", "U+06DD",
             "U+06DF", "U+06E0", "U+06E1", "U+06E2", "U+06E3", "U+06E4", "U+06E5",
             "U+06E6", "U+06E7", "U+06E8", "U+06EA", "U+06EB", "U+06EC", "U+06ED",
             "U+070F", "U+0711", "U+0730", "U+0731", "U+0732", "U+0733", "U+0734",
             "U+0735", "U+0736", "U+0737", "U+0738", "U+0739", "U+073A", "U+073B",
             "U+073C", "U+073D", "U+073E", "U+073F", "U+0740", "U+0741", "U+0742",
             "U+0743", "U+0744", "U+0745", "U+0746", "U+0747", "U+0748", "U+0749",
             "U+074A", "U+07A6", "U+07A7", "U+07A8", "U+07A9", "U+07AA", "U+07AB",
             "U+07AC", "U+07AD", "U+07AE", "U+07AF", "U+07B0", "U+07EB", "U+07EC",
             "U+07ED", "U+07EE", "U+07EF", "U+07F0", "U+07F1", "U+07F2", "U+07F3",
             "U+07F4", "U+07F5", "U+07FA", "U+07FD", "U+0816", "U+0817", "U+0818",
             "U+0819", "U+081A", "U+081B", "U+081C", "U+081D", "U+081E", "U+081F",
             "U+0820", "U+0821", "U+0822", "U+0823", "U+0824", "U+0825", "U+0826",
             "U+0827", "U+0828", "U+0829", "U+082A", "U+082B", "U+082C", "U+082D",
             "U+0859", "U+085A", "U+085B", "U+0888", "U+0890", "U+0891", "U+0898",
             "U+0899", "U+089A", "U+089B", "U+089C", "U+089D", "U+089E", "U+089F",
             "U+08C9", "U+08CA", "U+08CB", "U+08CC", "U+08CD", "U+08CE", "U+08CF",
             "U+08D0", "U+08D1", "U+08D2", "U+08D3", "U+08D4", "U+08D5", "U+08D6",
             "U+08D7", "U+08D8", "U+08D9", "U+08DA", "U+08DB", "U+08DC", "U+08DD",
             "U+08DE", "U+08DF", "U+08E0", "U+08E1", "U+08E2", "U+08E3", "U+08E4",
             "U+08E5", "U+08E6", "U+08E7", "U+08E8", "U+08E9", "U+08EA", "U+08EB",
             "U+08EC", "U+08ED", "U+08EE", "U+08EF", "U+08F0", "U+08F1", "U+08F2",
             "U+08F3", "U+08F4", "U+08F5", "U+08F6", "U+08F7", "U+08F8", "U+08F9",
             "U+08FA", "U+08FB", "U+08FC", "U+08FD", "U+08FE", "U+08FF", "U+0900",
             "U+0901", "U+0902", "U+093A", "U+093C", "U+0941", "U+0942", "U+0943",
             "U+0944", "U+0945", "U+0946", "U+0947", "U+0948", "U+094D", "U+0951",
             "U+0952", "U+0953", "U+0954", "U+0955", "U+0956", "U+0957", "U+0962",
             "U+0963", "U+0971", "U+0981", "U+09BC", "U+09C1", "U+09C2", "U+09C3",
             "U+09C4", "U+09CD", "U+09E2", "U+09E3", "U+09FE", "U+0A01", "U+0A02",
             "U+0A3C", "U+0A41", "U+0A42", "U+0A47", "U+0A48", "U+0A4B", "U+0A4C",
             "U+0A4D", "U+0A51", "U+0A70", "U+0A71", "U+0A75", "U+0A81", "U+0A82",
             "U+0ABC", "U+0AC1", "U+0AC2", "U+0AC3", "U+0AC4", "U+0AC5", "U+0AC7",
             "U+0AC8", "U+0ACD", "U+0AE2", "U+0AE3", "U+0AFA", "U+0AFB", "U+0AFC",
             "U+0AFD", "U+0AFE", "U+0AFF", "U+0B01", "U+0B3C", "U+0B3F", "U+0B41",
             "U+0B42", "U+0B43", "U+0B44", "U+0B4D", "U+0B55", "U+0B56", "U+0B62",
             "U+0B63", "U+0B82", "U+0BC0", "U+0BCD", "U+0C00", "U+0C04", "U+0C3C",
             "U+0C3E", "U+0C3F", "U+0C40", "U+0C46", "U+0C47", "U+0C48", "U+0C4A",
             "U+0C4B", "U+0C4C", "U+0C4D", "U+0C55", "U+0C56", "U+0C62", "U+0C63",
             "U+0C81", "U+0CBC", "U+0CBF", "U+0CC6", "U+0CCC", "U+0CCD", "U+0CE2",
             "U+0CE3", "U+0D00", "U+0D01", "U+0D3B", "U+0D3C", "U+0D41", "U+0D42",
             "U+0D43", "U+0D44", "U+0D4D", "U+0D62", "U+0D63", "U+0D81", "U+0DCA",
             "U+0DD2", "U+0DD3", "U+0DD4", "U+0DD6", "U+0E31", "U+0E34", "U+0E35",
             "U+0E36", "U+0E37", "U+0E38", "U+0E39", "U+0E3A", "U+0E46", "U+0E47",
             "U+0E48", "U+0E49", "U+0E4A", "U+0E4B", "U+0E4C", "U+0E4D", "U+0E4E",
             "U+0EB1", "U+0EB4", "U+0EB5", "U+0EB6", "U+0EB7", "U+0EB8", "U+0EB9",
             "U+0EBA", "U+0EBB", "U+0EBC", "U+0EC6", "U+0EC8", "U+0EC9", "U+0ECA",
             "U+0ECB", "U+0ECC", "U+0ECD", "U+0F18", "U+0F19", "U+0F35", "U+0F37",
             "U+0F39", "U+0F71", "U+0F72", "U+0F73", "U+0F74", "U+0F75", "U+0F76",
             "U+0F77", "U+0F78", "U+0F79", "U+0F7A", "U+0F7B", "U+0F7C", "U+0F7D",
             "U+0F7E", "U+0F80", "U+0F81", "U+0F82", "U+0F83", "U+0F84", "U+0F86",
             "U+0F87", "U+0F8D", "U+0F8E", "U+0F8F", "U+0F90", "U+0F91", "U+0F92",
             "U+0F93", "U+0F94", "U+0F95", "U+0F96", "U+0F97", "U+0F99", "U+0F9A",
             "U+0F9B", "U+0F9C", "U+0F9D", "U+0F9E", "U+0F9F", "U+0FA0", "U+0FA1",
             "U+0FA2", "U+0FA3", "U+0FA4", "U+0FA5", "U+0FA6", "U+0FA7", "U+0FA8",
             "U+0FA9", "U+0FAA", "U+0FAB", "U+0FAC", "U+0FAD", "U+0FAE", "U+0FAF",
             "U+0FB0", "U+0FB1", "U+0FB2", "U+0FB3", "U+0FB4", "U+0FB5", "U+0FB6",
             "U+0FB7", "U+0FB8", "U+0FB9", "U+0FBA", "U+0FBB", "U+0FBC", "U+0FC6",
             "U+102D", "U+102E", "U+102F", "U+1030", "U+1032", "U+1033", "U+1034",
             "U+1035", "U+1036", "U+1037", "U+1039", "U+103A", "U+103D", "U+103E",
             "U+1058", "U+1059", "U+105E", "U+105F", "U+1060", "U+1071", "U+1072",
             "U+1073", "U+1074", "U+1082", "U+1085", "U+1086", "U+108D", "U+109D",
             "U+10FC", "U+135D", "U+135E", "U+135F", "U+1712", "U+1713", "U+1714",
             "U+1732", "U+1733", "U+1752", "U+1753", "U+1772", "U+1773", "U+17B4",
             "U+17B5", "U+17B7", "U+17B8", "U+17B9", "U+17BA", "U+17BB", "U+17BC",
             "U+17BD", "U+17C6", "U+17C9", "U+17CA", "U+17CB", "U+17CC", "U+17CD",
             "U+17CE", "U+17CF", "U+17D0", "U+17D1", "U+17D2", "U+17D3", "U+17D7",
             "U+17DD", "U+180B", "U+180C", "U+180D", "U+180E", "U+180F", "U+1843",
             "U+1885", "U+1886", "U+18A9", "U+1920", "U+1921", "U+1922", "U+1927",
             "U+1928", "U+1932", "U+1939", "U+193A", "U+193B", "U+1A17", "U+1A18",
             "U+1A1B", "U+1A56", "U+1A58", "U+1A59", "U+1A5A", "U+1A5B", "U+1A5C",
             "U+1A5D", "U+1A5E", "U+1A60", "U+1A62", "U+1A65", "U+1A66", "U+1A67",
             "U+1A68", "U+1A69", "U+1A6A", "U+1A6B", "U+1A6C", "U+1A73", "U+1A74",
             "U+1A75", "U+1A76", "U+1A77", "U+1A78", "U+1A79", "U+1A7A", "U+1A7B",
             "U+1A7C", "U+1A7F", "U+1AA7", "U+1AB0", "U+1AB1", "U+1AB2", "U+1AB3",
             "U+1AB4", "U+1AB5", "U+1AB6", "U+1AB7", "U+1AB8", "U+1AB9", "U+1ABA",
             "U+1ABB", "U+1ABC", "U+1ABD", "U+1ABE", "U+1ABF", "U+1AC0", "U+1AC1",
             "U+1AC2", "U+1AC3", "U+1AC4", "U+1AC5", "U+1AC6", "U+1AC7", "U+1AC8",
             "U+1AC9", "U+1ACA", "U+1ACB", "U+1ACC", "U+1ACD", "U+1ACE", "U+1B00",
             "U+1B01", "U+1B02", "U+1B03", "U+1B34", "U+1B36", "U+1B37", "U+1B38",
             "U+1B39", "U+1B3A", "U+1B3C", "U+1B42", "U+1B6B", "U+1B6C", "U+1B6D",
             "U+1B6E", "U+1B6F", "U+1B70", "U+1B71", "U+1B72", "U+1B73", "U+1B80",
             "U+1B81", "U+1BA2", "U+1BA3", "U+1BA4", "U+1BA5", "U+1BA8", "U+1BA9",
             "U+1BAB", "U+1BAC", "U+1BAD", "U+1BE6", "U+1BE8", "U+1BE9", "U+1BED",
             "U+1BEF", "U+1BF0", "U+1BF1", "U+1C2C", "U+1C2D", "U+1C2E", "U+1C2F",
             "U+1C30", "U+1C31", "U+1C32", "U+1C33", "U+1C36", "U+1C37", "U+1C78",
             "U+1C79", "U+1C7A", "U+1C7B", "U+1C7C", "U+1C7D", "U+1CD0", "U+1CD1",
             "U+1CD2", "U+1CD4", "U+1CD5", "U+1CD6", "U+1CD7", "U+1CD8", "U+1CD9",
             "U+1CDA", "U+1CDB", "U+1CDC", "U+1CDD", "U+1CDE", "U+1CDF", "U+1CE0",
             "U+1CE2", "U+1CE3", "U+1CE4", "U+1CE5", "U+1CE6", "U+1CE7", "U+1CE8",
             "U+1CED", "U+1CF4", "U+1CF8", "U+1CF9", "U+1D2C", "U+1D2D", "U+1D2E",
             "U+1D2F", "U+1D30", "U+1D31", "U+1D32", "U+1D33", "U+1D34", "U+1D35",
             "U+1D36", "U+1D37", "U+1D38", "U+1D39", "U+1D3A", "U+1D3B", "U+1D3C",
             "U+1D3D", "U+1D3E", "U+1D3F", "U+1D40", "U+1D41", "U+1D42", "U+1D43",
             "U+1D44", "U+1D45", "U+1D46", "U+1D47", "U+1D48", "U+1D49", "U+1D4A",
             "U+1D4B", "U+1D4C", "U+1D4D", "U+1D4E", "U+1D4F", "U+1D50", "U+1D51",
             "U+1D52", "U+1D53", "U+1D54", "U+1D55", "U+1D56", "U+1D57", "U+1D58",
             "U+1D59", "U+1D5A", "U+1D5B", "U+1D5C", "U+1D5D", "U+1D5E", "U+1D5F",
             "U+1D60", "U+1D61", "U+1D62", "U+1D63", "U+1D64", "U+1D65", "U+1D66",
             "U+1D67", "U+1D68", "U+1D69", "U+1D6A", "U+1D78", "U+1D9B", "U+1D9C",
             "U+1D9D", "U+1D9E", "U+1D9F", "U+1DA0", "U+1DA1", "U+1DA2", "U+1DA3",
             "U+1DA4", "U+1DA5", "U+1DA6", "U+1DA7", "U+1DA8", "U+1DA9", "U+1DAA",
             "U+1DAB", "U+1DAC", "U+1DAD", "U+1DAE", "U+1DAF", "U+1DB0", "U+1DB1",
             "U+1DB2", "U+1DB3", "U+1DB4", "U+1DB5", "U+1DB6", "U+1DB7", "U+1DB8",
             "U+1DB9", "U+1DBA", "U+1DBB", "U+1DBC", "U+1DBD", "U+1DBE", "U+1DBF",
             "U+1DC0", "U+1DC1", "U+1DC2", "U+1DC3", "U+1DC4", "U+1DC5", "U+1DC6",
             "U+1DC7", "U+1DC8", "U+1DC9", "U+1DCA", "U+1DCB", "U+1DCC", "U+1DCD",
             "U+1DCE", "U+1DCF", "U+1DD0", "U+1DD1", "U+1DD2", "U+1DD3", "U+1DD4",
             "U+1DD5", "U+1DD6", "U+1DD7", "U+1DD8", "U+1DD9", "U+1DDA", "U+1DDB",
             "U+1DDC", "U+1DDD", "U+1DDE", "U+1DDF", "U+1DE0", "U+1DE1", "U+1DE2",
             "U+1DE3", "U+1DE4", "U+1DE5", "U+1DE6", "U+1DE7", "U+1DE8", "U+1DE9",
             "U+1DEA", "U+1DEB", "U+1DEC", "U+1DED", "U+1DEE", "U+1DEF", "U+1DF0",
             "U+1DF1", "U+1DF2", "U+1DF3", "U+1DF4", "U+1DF5", "U+1DF6", "U+1DF7",
             "U+1DF8", "U+1DF9", "U+1DFA", "U+1DFB", "U+1DFC", "U+1DFD", "U+1DFE",
             "U+1DFF", "U+1FBD", "U+1FBF", "U+1FC0", "U+1FC1", "U+1FCD", "U+1FCE",
             "U+1FCF", "U+1FDD", "U+1FDE", "U+1FDF", "U+1FED", "U+1FEE", "U+1FEF",
             "U+1FFD", "U+1FFE", "U+200B", "U+200C", "U+200D", "U+200E", "U+200F",
             "U+2018", "U+2019", "U+2024", "U+2027", "U+202A", "U+202B", "U+202C",
             "U+202D", "U+202E", "U+2060", "U+2061", "U+2062", "U+2063", "U+2064",
             "U+2066", "U+2067", "U+2068", "U+2069", "U+206A", "U+206B", "U+206C",
             "U+206D", "U+206E", "U+206F", "U+2071", "U+207F", "U+2090", "U+2091",
             "U+2092", "U+2093", "U+2094", "U+2095", "U+2096", "U+2097", "U+2098",
             "U+2099", "U+209A", "U+209B", "U+209C", "U+20D0", "U+20D1", "U+20D2",
             "U+20D3", "U+20D4", "U+20D5", "U+20D6", "U+20D7", "U+20D8", "U+20D9",
             "U+20DA", "U+20DB", "U+20DC", "U+20DD", "U+20DE", "U+20DF", "U+20E0",
             "U+20E1", "U+20E2", "U+20E3", "U+20E4", "U+20E5", "U+20E6", "U+20E7",
             "U+20E8", "U+20E9", "U+20EA", "U+20EB", "U+20EC", "U+20ED", "U+20EE",
             "U+20EF", "U+20F0", "U+2C7C", "U+2C7D", "U+2CEF", "U+2CF0", "U+2CF1",
             "U+2D6F", "U+2D7F", "U+2DE0", "U+2DE1", "U+2DE2", "U+2DE3", "U+2DE4",
             "U+2DE5", "U+2DE6", "U+2DE7", "U+2DE8", "U+2DE9", "U+2DEA", "U+2DEB",
             "U+2DEC", "U+2DED", "U+2DEE", "U+2DEF", "U+2DF0", "U+2DF1", "U+2DF2",
             "U+2DF3", "U+2DF4", "U+2DF5", "U+2DF6", "U+2DF7", "U+2DF8", "U+2DF9",
             "U+2DFA", "U+2DFB", "U+2DFC", "U+2DFD", "U+2DFE", "U+2DFF", "U+2E2F",
             "U+3005", "U+302A", "U+302B", "U+302C", "U+302D", "U+3031", "U+3032",
             "U+3033", "U+3034", "U+3035", "U+303B", "U+3099", "U+309A", "U+309B",
             "U+309C", "U+309D", "U+309E", "U+30FC", "U+30FD", "U+30FE", "U+A015",
             "U+A4F8", "U+A4F9", "U+A4FA", "U+A4FB", "U+A4FC", "U+A4FD", "U+A60C",
             "U+A66F", "U+A670", "U+A671", "U+A672", "U+A674", "U+A675", "U+A676",
             "U+A677", "U+A678", "U+A679", "U+A67A", "U+A67B", "U+A67C", "U+A67D",
             "U+A67F", "U+A69C", "U+A69D", "U+A69E", "U+A69F", "U+A6F0", "U+A6F1",
             "U+A700", "U+A701", "U+A702", "U+A703", "U+A704", "U+A705", "U+A706",
             "U+A707", "U+A708", "U+A709", "U+A70A", "U+A70B", "U+A70C", "U+A70D",
             "U+A70E", "U+A70F", "U+A710", "U+A711", "U+A712", "U+A713", "U+A714",
             "U+A715", "U+A716", "U+A717", "U+A718", "U+A719", "U+A71A", "U+A71B",
             "U+A71C", "U+A71D", "U+A71E", "U+A71F", "U+A720", "U+A721", "U+A770",
             "U+A788", "U+A789", "U+A78A", "U+A7F2", "U+A7F3", "U+A7F4", "U+A7F8",
             "U+A7F9", "U+A802", "U+A806", "U+A80B", "U+A825", "U+A826", "U+A82C",
             "U+A8C4", "U+A8C5", "U+A8E0", "U+A8E1", "U+A8E2", "U+A8E3", "U+A8E4",
             "U+A8E5", "U+A8E6", "U+A8E7", "U+A8E8", "U+A8E9", "U+A8EA", "U+A8EB",
             "U+A8EC", "U+A8ED", "U+A8EE", "U+A8EF", "U+A8F0", "U+A8F1", "U+A8FF",
             "U+A926", "U+A927", "U+A928", "U+A929", "U+A92A", "U+A92B", "U+A92C",
             "U+A92D", "U+A947", "U+A948", "U+A949", "U+A94A", "U+A94B", "U+A94C",
             "U+A94D", "U+A94E", "U+A94F", "U+A950", "U+A951", "U+A980", "U+A981",
             "U+A982", "U+A9B3", "U+A9B6", "U+A9B7", "U+A9B8", "U+A9B9", "U+A9BC",
             "U+A9BD", "U+A9CF", "U+A9E5", "U+A9E6", "U+AA29", "U+AA2A", "U+AA2B",
             "U+AA2C", "U+AA2D", "U+AA2E", "U+AA31", "U+AA32", "U+AA35", "U+AA36",
             "U+AA43", "U+AA4C", "U+AA70", "U+AA7C", "U+AAB0", "U+AAB2", "U+AAB3",
             "U+AAB4", "U+AAB7", "U+AAB8", "U+AABE", "U+AABF", "U+AAC1", "U+AADD",
             "U+AAEC", "U+AAED", "U+AAF3", "U+AAF4", "U+AAF6", "U+AB5B", "U+AB5C",
             "U+AB5D", "U+AB5E", "U+AB5F", "U+AB69", "U+AB6A", "U+AB6B", "U+ABE5",
             "U+ABE8", "U+ABED", "U+FB1E", "U+FBB2", "U+FBB3", "U+FBB4", "U+FBB5",
             "U+FBB6", "U+FBB7", "U+FBB8", "U+FBB9", "U+FBBA", "U+FBBB", "U+FBBC",
             "U+FBBD", "U+FBBE", "U+FBBF", "U+FBC0", "U+FBC1", "U+FBC2", "U+FE00",
             "U+FE01", "U+FE02", "U+FE03", "U+FE04", "U+FE05", "U+FE06", "U+FE07",
             "U+FE08", "U+FE09", "U+FE0A", "U+FE0B", "U+FE0C", "U+FE0D", "U+FE0E",
             "U+FE0F", "U+FE13", "U+FE20", "U+FE21", "U+FE22", "U+FE23", "U+FE24",
             "U+FE25", "U+FE26", "U+FE27", "U+FE28", "U+FE29", "U+FE2A", "U+FE2B",
             "U+FE2C", "U+FE2D", "U+FE2E", "U+FE2F", "U+FE52", "U+FE55", "U+FEFF",
             "U+FF07", "U+FF0E", "U+FF1A", "U+FF3E", "U+FF40", "U+FF70", "U+FF9E",
             "U+FF9F", "U+FFE3", "U+FFF9", "U+FFFA", "U+FFFB"}
        unicode15 == {"U+0ECE"}
        unicode17 ==
            {"U+0897", "U+1ACF", "U+1AD0", "U+1AD1", "U+1AD2", "U+1AD3", "U+1AD4",
             "U+1AD5", "U+1AD6", "U+1AD7", "U+1AD8", "U+1AD9", "U+1ADA", "U+1ADB",
             "U+1ADC", "U+1ADD", "U+1AE0", "U+1AE1", "U+1AE2", "U+1AE3", "U+1AE4",
             "U+1AE5", "U+1AE6", "U+1AE7", "U+1AE8", "U+1AE9", "U+1AEA", "U+1AEB",
             "U+A7F1"}
    IN  [version \in DOMAIN LowerSeq |->
            unicode14
            \cup (IF version = "14.0" THEN {} ELSE unicode15)
            \cup (IF version = "17.0" THEN unicode17 ELSE {})]

\* the characters of the pairs, by version
UpperOfPair ==
    [version \in DOMAIN UpperSeq |->
        {UpperSeq[version][i] : i \in 1..Len(UpperSeq[version])}]
LowerOfPair ==
    [version \in DOMAIN LowerSeq |->
        {LowerSeq[version][i] : i \in 1..Len(LowerSeq[version])}]

\* the cased characters (Unicode Cased), by version: those with a case
\* mapping and the listed ones, which have none; U+0295 is no longer cased
\* in Unicode 17
Cased ==
    LET unmapped14 ==
            {"ª", "º", "U+0138", "U+018D", "U+019B", "U+01AA", "U+01AB", "U+01BA",
             "U+01BE", "U+0221", "U+0234", "U+0235", "U+0236", "U+0237", "U+0238",
             "U+0239", "U+0255", "U+0258", "U+025A", "U+025D", "U+025E", "U+025F",
             "U+0262", "U+0264", "U+0267", "U+026D", "U+026E", "U+0270", "U+0273",
             "U+0274", "U+0276", "U+0277", "U+0278", "U+0279", "U+027A", "U+027B",
             "U+027C", "U+027E", "U+027F", "U+0281", "U+0284", "U+0285", "U+0286",
             "U+028D", "U+028E", "U+028F", "U+0290", "U+0291", "U+0293", "U+0295",
             "U+0296", "U+0297", "U+0298", "U+0299", "U+029A", "U+029B", "U+029C",
             "U+029F", "U+02A0", "U+02A1", "U+02A2", "U+02A3", "U+02A4", "U+02A5",
             "U+02A6", "U+02A7", "U+02A8", "U+02A9", "U+02AA", "U+02AB", "U+02AC",
             "U+02AD", "U+02AE", "U+02AF", "U+03D2", "U+03D3", "U+03D4", "U+03FC",
             "U+0560", "U+0588", "U+1D00", "U+1D01", "U+1D02", "U+1D03", "U+1D04",
             "U+1D05", "U+1D06", "U+1D07", "U+1D08", "U+1D09", "U+1D0A", "U+1D0B",
             "U+1D0C", "U+1D0D", "U+1D0E", "U+1D0F", "U+1D10", "U+1D11", "U+1D12",
             "U+1D13", "U+1D14", "U+1D15", "U+1D16", "U+1D17", "U+1D18", "U+1D19",
             "U+1D1A", "U+1D1B", "U+1D1C", "U+1D1D", "U+1D1E", "U+1D1F", "U+1D20",
             "U+1D21", "U+1D22", "U+1D23", "U+1D24", "U+1D25", "U+1D26", "U+1D27",
             "U+1D28", "U+1D29", "U+1D2A", "U+1D2B", "U+1D6B", "U+1D6C", "U+1D6D",
             "U+1D6E", "U+1D6F", "U+1D70", "U+1D71", "U+1D72", "U+1D73", "U+1D74",
             "U+1D75", "U+1D76", "U+1D77", "U+1D7A", "U+1D7B", "U+1D7C", "U+1D7E",
             "U+1D7F", "U+1D80", "U+1D81", "U+1D82", "U+1D83", "U+1D84", "U+1D85",
             "U+1D86", "U+1D87", "U+1D88", "U+1D89", "U+1D8A", "U+1D8B", "U+1D8C",
             "U+1D8D", "U+1D8F", "U+1D90", "U+1D91", "U+1D92", "U+1D93", "U+1D94",
             "U+1D95", "U+1D96", "U+1D97", "U+1D98", "U+1D99", "U+1D9A", "U+1E9C",
             "U+1E9D", "U+1E9F", "U+2102", "U+2107", "U+210A", "U+210B", "U+210C",
             "U+210D", "U+210E", "U+210F", "U+2110", "U+2111", "U+2112", "U+2113",
             "U+2115", "U+2119", "U+211A", "U+211B", "U+211C", "U+211D", "U+2124",
             "U+2128", "U+212C", "U+212D", "U+212F", "U+2130", "U+2131", "U+2133",
             "U+2134", "U+2139", "U+213C", "U+213D", "U+213E", "U+213F", "U+2145",
             "U+2146", "U+2147", "U+2148", "U+2149", "U+2C71", "U+2C74", "U+2C77",
             "U+2C78", "U+2C79", "U+2C7A", "U+2C7B", "U+2CE4", "U+A730", "U+A731",
             "U+A771", "U+A772", "U+A773", "U+A774", "U+A775", "U+A776", "U+A777",
             "U+A778", "U+A78E", "U+A795", "U+A7AF", "U+A7D3", "U+A7D5", "U+A7FA",
             "U+AB30", "U+AB31", "U+AB32", "U+AB33", "U+AB34", "U+AB35", "U+AB36",
             "U+AB37", "U+AB38", "U+AB39", "U+AB3A", "U+AB3B", "U+AB3C", "U+AB3D",
             "U+AB3E", "U+AB3F", "U+AB40", "U+AB41", "U+AB42", "U+AB43", "U+AB44",
             "U+AB45", "U+AB46", "U+AB47", "U+AB48", "U+AB49", "U+AB4A", "U+AB4B",
             "U+AB4C", "U+AB4D", "U+AB4E", "U+AB4F", "U+AB50", "U+AB51", "U+AB52",
             "U+AB54", "U+AB55", "U+AB56", "U+AB57", "U+AB58", "U+AB59", "U+AB5A",
             "U+AB60", "U+AB61", "U+AB62", "U+AB63", "U+AB64", "U+AB65", "U+AB66",
             "U+AB67", "U+AB68"}
    IN  [version \in DOMAIN LowerSeq |->
            UpperOfPair[version] \cup LowerOfPair[version]
            \cup {LowerSpecial[i][1] : i \in 1..Len(LowerSpecial)}
            \cup {UpperSpecial[i][1] : i \in 1..Len(UpperSpecial)}
            \cup (IF version = "17.0" THEN unmapped14 \ {"U+0295"} ELSE unmapped14)]

\* String.prototype.toLowerCase, one character out of context: the result
\* is a string
ToLower(c) ==
    IF c \in UpperOfPair[unicode]
    THEN <<LowerSeq[unicode][CHOOSE i \in 1..Len(UpperSeq[unicode]) :
                                UpperSeq[unicode][i] = c]>>
    ELSE IF \E i \in 1..Len(LowerSpecial) : LowerSpecial[i][1] = c
    THEN LowerSpecial[CHOOSE i \in 1..Len(LowerSpecial) : LowerSpecial[i][1] = c][2]
    ELSE <<c>>

\* String.prototype.toUpperCase, one character: the result is a string
ToUpper(c) ==
    IF c \in LowerOfPair[unicode]
    THEN <<UpperSeq[unicode][CHOOSE i \in 1..Len(LowerSeq[unicode]) :
                                LowerSeq[unicode][i] = c]>>
    ELSE IF \E i \in 1..Len(UpperSpecial) : UpperSpecial[i][1] = c
    THEN UpperSpecial[CHOOSE i \in 1..Len(UpperSpecial) : UpperSpecial[i][1] = c][2]
    ELSE <<c>>

\* the capital sigma at place i of s is final: the nearest character
\* before it that is not case-ignorable is cased, and the nearest one
\* after it, if any, is not
IsFinalSigma(s, i) ==
    LET before == {j \in 1..(i - 1) : s[j] \notin CaseIgnorable[unicode]}
        after == {j \in (i + 1)..Len(s) : s[j] \notin CaseIgnorable[unicode]}
    IN  /\ before # {}
        /\ s[CHOOSE j \in before : \A k \in before : k <= j] \in Cased[unicode]
        /\ \/ after = {}
           \/ s[CHOOSE j \in after : \A k \in after : j <= k] \notin Cased[unicode]

\* the regular expression class \s
IsSpace(c) == c \in SpaceChars

\* the regular expression class [a-zA-Z0-9]
IsAlnum(c) == c \in LowerChars \cup UpperChars \cup DigitChars

\* the regular expression class [a-z0-9\-]
IsSlugChar(c) == c \in LowerChars \cup DigitChars \cup {"-"}

\* the regular expression class [\s\-_]
IsSeparator(c) == IsSpace(c) \/ c \in {"-", "_"}

\* the regular expression class \w
IsWordChar(c) == IsAlnum(c) \/ c = "_"

\* parts.join('')
RECURSIVE joinAll(_)
joinAll(parts) ==
    IF parts = <<>> THEN <<>> ELSE Head(parts) \o joinAll(Tail(parts))

\* String.prototype.toLowerCase: character by character, a final capital
\* sigma to the final small sigma
toLowerCase(s) ==
    joinAll([i \in 1..Len(s) |->
                IF s[i] = "U+03A3" /\ IsFinalSigma(s, i) THEN <<"U+03C2">>
                ELSE ToLower(s[i])])

\* String.prototype.toUpperCase: character by character
RECURSIVE toUpperCase(_)
toUpperCase(s) ==
    IF s = <<>> THEN <<>> ELSE ToUpper(Head(s)) \o toUpperCase(Tail(s))

RECURSIVE DropSpaces(_)
DropSpaces(s) ==
    IF s # <<>> /\ IsSpace(Head(s)) THEN DropSpaces(Tail(s)) ELSE s

RECURSIVE DropSeparators(_)
DropSeparators(s) ==
    IF s # <<>> /\ IsSeparator(Head(s)) THEN DropSeparators(Tail(s)) ELSE s

\* s.replace(/\s+/g, '-')
RECURSIVE replaceSpaceRuns(_)
replaceSpaceRuns(s) ==
    IF s = <<>> THEN <<>>
    ELSE IF IsSpace(Head(s)) THEN <<"-">> \o replaceSpaceRuns(DropSpaces(s))
    ELSE <<Head(s)>> \o replaceSpaceRuns(Tail(s))

\* s.slice(0, n)
sliceTo(s, n) == SubSeq(s, 1, IF Len(s) < n THEN Len(s) ELSE n)

\* s.split(/[\s\-_]+/): the words between maximal separator runs, the empty
\* words before a leading and after a trailing run included
RECURSIVE splitFrom(_, _)
splitFrom(s, word) ==
    IF s = <<>> THEN <<word>>
    ELSE IF IsSeparator(Head(s)) THEN <<word>> \o splitFrom(DropSeparators(s), <<>>)
    ELSE splitFrom(Tail(s), Append(word, Head(s)))

\* word.charAt(0).toUpperCase() + word.slice(1).toLowerCase()
capitalize(word) ==
    IF word = <<>> THEN <<>>
    ELSE ToUpper(Head(word)) \o toLowerCase(Tail(word))


(***************************************************************************)
(* converter.ts: the identity functions                                    *)
(***************************************************************************)
SliceLimit == 50

sanitizeFileName(name) ==
    sliceTo(SelectSeq(replaceSpaceRuns(toLowerCase(name)), IsSlugChar), SliceLimit)

toPascalCase(str) ==
    LET words == splitFrom(str, <<>>)
    IN  SelectSeq(joinAll([i \in 1..Len(words) |-> capitalize(words[i])]), IsAlnum)

(***************************************************************************)
(* DesignToCode: the identity functions                                    *)
(***************************************************************************)
sanitizeName(name) == SelectSeq(name, IsAlnum)

DTC_toPascalCase(str) ==
    LET words == splitFrom(str, <<>>)
    IN  joinAll([i \in 1..Len(words) |-> capitalize(words[i])])

(***************************************************************************)
(* Optional values: <<>> is an absent field, <<v>> a present one.  A       *)
(* node's children are a sequence; the code treats an absent children      *)
(* field and an empty one alike.  Lengths are in tenths of a design unit.  *)
(***************************************************************************)
None == <<>>
Some(v) == <<v>>

\* n.visible !== false
IsShown(n) == n.visible # "false"

\* Math.round of a number given in tenths: floor(x + 0.5)
MathRound(tenths) == (tenths + 5) \div 10

\* parts.join(sep)
RECURSIVE joinWith(_, _)
joinWith(parts, sep) ==
    IF parts = <<>> THEN <<>>
    ELSE IF Len(parts) = 1 THEN Head(parts)
    ELSE Head(parts) \o sep \o joinWith(Tail(parts), sep)

\* array.filter(test), on a sequence of nodes
RECURSIVE filterShown(_)
filterShown(ns) ==
    IF ns = <<>> THEN <<>>
    ELSE IF IsShown(Head(ns)) THEN <<Head(ns)>> \o filterShown(Tail(ns))
    ELSE filterShown(Tail(ns))

(***************************************************************************)
(* converter.ts: template inputs                                           *)
(***************************************************************************)
\* the longest run of \w characters at the head of s
RECURSIVE wordRun(_)
wordRun(s) ==
    IF s # <<>> /\ IsWordChar(Head(s)) THEN <<Head(s)>> \o wordRun(Tail(s)) ELSE <<>>

\* text.match(/\$\{(\w+)\}/g) with m.slice(2, -1) applied to every match:
\* the identifiers of the non-overlapping matches, left to right
RECURSIVE matchPlaceholders(_)
matchPlaceholders(text) ==
    IF Len(text) < 4 THEN <<>>
    ELSE IF text[1] = "$" /\ text[2] = "{"
         THEN LET id == wordRun(SubSeq(text, 3, Len(text)))
                  after == SubSeq(text, 3 + Len(id), Len(text))
              IN  IF id # <<>> /\ after # <<>> /\ Head(after) = "}"
                  THEN <<id>> \o matchPlaceholders(Tail(after))
                  ELSE matchPlaceholders(Tail(text))
         ELSE matchPlaceholders(Tail(text))

\* text.includes('${')
includesDollarBrace(text) ==
    \E i \in 1..(Len(text) - 1) : text[i] = "$" /\ text[i + 1] = "{"

\* props.add(m) for every m of ms, on an insertion-ordered Set
RECURSIVE addAll(_, _)
addAll(props, ms) ==
    IF ms = <<>> THEN props
    ELSE addAll(IF \E i \in 1..Len(props) : props[i] = Head(ms)
                THEN props ELSE Append(props, Head(ms)),
                Tail(ms))

RECURSIVE propsOfChildren(_, _)
propsOfChildren(children, props) ==
    IF children = <<>> THEN props
    ELSE LET child == Head(children)
             text == IF child.textContent = None THEN <<>> ELSE child.textContent[1]
         IN  propsOfChildren(Tail(children),
                 IF child.type = "TEXT" /\ includesDollarBrace(text)
                 THEN addAll(props, matchPlaceholders(text))
                 ELSE props)

\* template inputs taken from the children of every kind
RECURSIVE propsOfAnyChildren(_, _)
propsOfAnyChildren(children, props) ==
    IF children = <<>> THEN props
    ELSE LET child == Head(children)
             text == IF child.textContent = None THEN <<>> ELSE child.textContent[1]
         IN  propsOfAnyChildren(Tail(children),
                 IF includesDollarBrace(text)
                 THEN addAll(props, matchPlaceholders(text))
                 ELSE props)

extractPropsFromNode_AnyKind(node) == propsOfAnyChildren(node.children, <<>>)

extractPropsFromNode(node) == propsOfChildren(node.children, <<>>)

(***************************************************************************)
(* converter.ts: the children of a rendered node                           *)
(***************************************************************************)
\* child.textContent || child.name
textOrName(child) ==
    IF child.textContent # None /\ child.textContent[1] # <<>>
    THEN child.textContent[1] ELSE child.name

\* node.textContent ? `<p>${node.textContent}</p>` : ''
ownText(node) ==
    IF node.textContent # None /\ node.textContent[1] # <<>>
    THEN <<"<p>">> \o node.textContent[1] \o <<"</p>">>
    ELSE <<>>

reactChild(child) ==
    IF child.type = "TEXT"
    THEN <<"      <p>">> \o textOrName(child) \o <<"</p>">>
    ELSE <<"      <div>{/* ">> \o child.name \o <<" */}</div>">>

vueChild(child) ==
    IF child.type = "TEXT"
    THEN <<"    <p>">> \o textOrName(child) \o <<"</p>">>
    ELSE <<"    <div><!-- ">> \o child.name \o <<" --></div>">>

svelteChild(child) ==
    IF child.type = "TEXT"
    THEN <<"  <p>">> \o textOrName(child) \o <<"</p>">>
    ELSE <<"  <div><!-- ">> \o child.name \o <<" --></div>">>

\* the children kept with the visibility filter left out
shownChildren_All(node) == node.children

\* the children the renderers keep: node.children.filter(c => c.visible !== false)
shownChildren(node) == filterShown(node.children)

\* the React children rendered last child first
generateReactChildren_Reversed(node) ==
    IF node.children = <<>> THEN ownText(node)
    ELSE LET kept == shownChildren(node)
         IN  joinWith([i \in 1..Len(kept) |-> reactChild(kept[Len(kept) + 1 - i])], <<"\n">>)

generateReactChildren(node) ==
    IF node.children = <<>> THEN ownText(node)
    ELSE LET kept == shownChildren(node)
         IN  joinWith([i \in 1..Len(kept) |-> reactChild(kept[i])], <<"\n">>)

generateVueChildren(node) ==
    IF node.children = <<>> THEN ownText(node)
    ELSE LET kept == shownChildren(node)
         IN  joinWith([i \in 1..Len(kept) |-> vueChild(kept[i])], <<"\n">>)

generateSvelteChildren(node) ==
    IF node.children = <<>> THEN ownText(node)
    ELSE LET kept == shownChildren(node)
         IN  joinWith([i \in 1..Len(kept) |-> svelteChild(kept[i])], <<"\n">>)

(***************************************************************************)
(* converter.ts: the three renderers                                       *)
(***************************************************************************)
\* `width: ${Math.round(w)}px; height: ${Math.round(h)}px;` or ''
inlineDimensions(node) ==
    IF node.absoluteBoundingBox = None THEN <<>>
    ELSE LET box == node.absoluteBoundingBox[1]
         IN  <<"width: ", ToString(MathRound(box.width)), "px; height: ",
               ToString(MathRound(box.height)), "px;">>

generateReactComponent(name, node, props) ==
    LET propString == IF Len(props) > 0
                      THEN <<"{ ">> \o joinWith(props, <<", ">>) \o <<" }">>
                      ELSE <<>>
        fields == joinWith([i \in 1..Len(props) |-> props[i] \o <<"?: string | number;">>],
                           <<"\n  ">>)
    IN  <<"import React from 'react';\n\ninterface ">> \o name \o <<"Props {\n  ">>
        \o fields
        \o <<"\n}\n\nexport const ">> \o name \o <<": React.FC<">> \o name
        \o <<"Props> = (">> \o propString
        \o <<") => {\n  return (\n    <div style={{ ">> \o inlineDimensions(node)
        \o <<" }}>\n      {/* ">> \o node.name \o <<" Component */}\n      ">>
        \o generateReactChildren(node)
        \o <<"\n    </div>\n  );\n};\n\nexport default ">> \o name \o <<";\n">>

generateVueComponent(name, node, props) ==
    LET propsSection ==
            IF Len(props) > 0
            THEN <<"\n  props: {\n    ">>
                 \o joinWith([i \in 1..Len(props) |-> props[i] \o <<": String,">>],
                             <<"\n    ">>)
                 \o <<"\n  },">>
            ELSE <<>>
    IN  <<"<template>\n  <div style=\"">> \o inlineDimensions(node)
        \o <<"\">\n    <!-- ">> \o node.name \o <<" Component -->\n    ">>
        \o generateVueChildren(node)
        \o <<"\n  </div>\n</template>\n\n<script>\nexport default {\n  name: '">>
        \o name \o <<"',">> \o propsSection
        \o <<"\n};\n</script>\n\n<style scoped>\ndiv {\n  box-sizing: border-box;\n}\n</style>\n">>

generateSvelteComponent(name, node, props) ==
    LET exportProps ==
            joinWith([i \in 1..Len(props) |-> <<"export let ">> \o props[i] \o <<";">>],
                     <<"\n">>)
    IN  <<"<script>\n  ">> \o exportProps
        \o <<"\n</script>\n\n<div style=\"">> \o inlineDimensions(node)
        \o <<"\">\n  <!-- ">> \o node.name \o <<" Component -->\n  ">>
        \o generateSvelteChildren(node)
        \o <<"\n</div>\n\n<style>\n  div {\n    box-sizing: border-box;\n  }\n</style>\n">>

generateComponentCode(node, framework) ==
    LET name == toPascalCase(node.name)
        props == extractPropsFromNode(node)
    IN  CASE framework = "react" -> generateReactComponent(name, node, props)
          [] framework = "vue" -> generateVueComponent(name, node, props)
          [] framework = "svelte" -> generateSvelteComponent(name, node, props)
          [] OTHER -> <<>>

(***************************************************************************)
(* converter.ts: the manifest and convertFigmaToCode                       *)
(***************************************************************************)
\* n.visible !== false && n.name
IsValidNode(n) == IsShown(n) /\ n.name # <<>>

RECURSIVE filterValid(_)
filterValid(ns) ==
    IF ns = <<>> THEN <<>>
    ELSE IF IsValidNode(Head(ns)) THEN <<Head(ns)>> \o filterValid(Tail(ns))
    ELSE filterValid(Tail(ns))

exportStatement(node) ==
    <<"export { default as ">> \o toPascalCase(node.name) \o <<" } from './">>
    \o sanitizeFileName(node.name) \o <<"';">>

\* a manifest that skips a node whose file name an earlier node already has
generateIndexFile_Dedup(nodes, framework) ==
    LET all == filterValid(nodes)
        kept == SelectSeq(all, LAMBDA n :
                    n = all[CHOOSE i \in 1..Len(all) :
                                /\ sanitizeFileName(all[i].name) = sanitizeFileName(n.name)
                                /\ \A j \in 1..(i - 1) :
                                      sanitizeFileName(all[j].name) # sanitizeFileName(n.name)])
        imports == joinWith([i \in 1..Len(kept) |->
                                <<"export { default as ">> \o toPascalCase(kept[i].name)
                                \o <<" } from './">> \o sanitizeFileName(kept[i].name)
                                \o <<"';">>],
                            <<"\n">>)
    IN  IF framework = "vue"
        THEN <<"// Vue Components\n">> \o imports \o <<"\n">>
        ELSE <<"// ", framework, " Components\n">> \o imports \o <<"\n">>

generateIndexFile(nodes, framework) ==
    LET kept == filterValid(nodes)
        imports == joinWith([i \in 1..Len(kept) |-> exportStatement(kept[i])], <<"\n">>)
    IN  IF framework = "vue"
        THEN <<"// Vue Components\n">> \o imports \o <<"\n">>
        ELSE <<"// ", framework, " Components\n">> \o imports \o <<"\n">>

\* an assignment that leaves a key already present alone
setKey_KeepFirst(components, key, value) ==
    IF \E i \in 1..Len(components) : components[i].key = key
    THEN components
    ELSE Append(components, [key |-> key, value |-> value])

\* components[key] = value, on an object whose keys keep their insertion order
setKey(components, key, value) ==
    IF \E i \in 1..Len(components) : components[i].key = key
    THEN [i \in 1..Len(components) |->
             IF components[i].key = key
             THEN [key |-> key, value |-> value] ELSE components[i]]
    ELSE Append(components, [key |-> key, value |-> value])

\* a loop that stores a component under its displayName
RECURSIVE convertNodes_ByDisplayName(_, _, _)
convertNodes_ByDisplayName(valid, framework, components) ==
    IF valid = <<>> THEN components
    ELSE LET node == Head(valid)
             code == generateComponentCode(node, framework)
         IN  convertNodes_ByDisplayName(Tail(valid), framework,
                 setKey(components, toPascalCase(node.name) \o <<".", "tsx">>, code))

\* the loop of convertFigmaToCode over validNodes
RECURSIVE convertNodes(_, _, _)
convertNodes(valid, framework, components) ==
    IF valid = <<>> THEN components
    ELSE LET node == Head(valid)
             filename == sanitizeFileName(node.name)
             code == generateComponentCode(node, framework)
         IN  convertNodes(Tail(valid), framework,
                          setKey(components, filename \o <<".", "tsx">>, code))

\* a conversion that fails when no node is kept
convertFigmaToCode_FailOnEmpty(figmaFile, framework) ==
    LET validNodes == filterValid(figmaFile.nodes)
    IN  IF validNodes = <<>> THEN None
        ELSE Some([components |-> convertNodes(validNodes, framework, <<>>),
                   index |-> generateIndexFile(validNodes, framework)])

\* the ConversionResult the promise resolves to; None would be a failure
convertFigmaToCode(figmaFile, framework) ==
    LET validNodes == filterValid(figmaFile.nodes)
    IN  Some([components |-> convertNodes(validNodes, framework, <<>>),
              index |-> generateIndexFile(validNodes, framework)])

(***************************************************************************)
(* DesignToCode (index.ts): configuration, property record, styles         *)
(***************************************************************************)
\* new DesignToCode(options): an option is "absent", "true" or "false";
\* the framework option is "absent" or a framework
DesignToCodeConfig(options) ==
    [framework |-> IF options.framework = "absent" THEN "react" ELSE options.framework,
     typescript |-> options.typescript # "false",
     tailwind |-> options.tailwind # "false",
     includeStyles |-> options.includeStyles # "false"]

HexDigits == <<"0", "1", "2", "3", "4", "5", "6", "7", "8", "9",
               "a", "b", "c", "d", "e", "f">>

\* n.toString(16) of an integer n >= 0
RECURSIVE toString16(_)
toString16(n) ==
    IF n < 16 THEN <<HexDigits[n + 1]>>
    ELSE toString16(n \div 16) \o <<HexDigits[(n % 16) + 1]>>

\* toHex of colorToHex: a channel is given in hundredths
channelToHex(hundredths) ==
    LET rounded == (hundredths * 510 + 100) \div 200
        hex == IF rounded < 0 THEN <<"-">> \o toString16(-rounded) ELSE toString16(rounded)
    IN  IF Len(hex) = 1 THEN <<"0">> \o hex ELSE hex

colorToHex(fill) ==
    IF fill.type # "SOLID" \/ fill.color = None
    THEN <<"#", "0", "0", "0", "0", "0", "0">>
    ELSE LET color == fill.color[1]
         IN  toUpperCase(<<"#">> \o channelToHex(color.r) \o channelToHex(color.g)
                         \o channelToHex(color.b))

\* `${x}` of a number given in tenths
formatTenths(t) ==
    LET a == IF t < 0 THEN -t ELSE t
        sign == IF t < 0 THEN <<"-">> ELSE <<>>
    IN  IF a % 10 = 0 THEN sign \o <<ToString(a \div 10)>>
        ELSE sign \o <<ToString(a \div 10), ".", ToString(a % 10)>>

\* the property record; an absent property is None
extractProps(node) ==
    LET hasText == node.characters # None /\ node.characters[1] # <<>>
    IN  [id |-> node.id,
         name |-> sanitizeName(node.name),
         type |-> node.type,
         children |-> Len(node.children),
         dimensions |-> IF node.absoluteBoundingBox = None THEN None
                        ELSE Some([width |-> node.absoluteBoundingBox[1].width,
                                   height |-> node.absoluteBoundingBox[1].height]),
         backgroundColor |-> IF Len(node.fills) > 0
                             THEN Some(colorToHex(node.fills[1])) ELSE None,
         text |-> IF hasText THEN node.characters ELSE None,
         fontSize |-> IF hasText
                      THEN Some(IF node.fontSize = None \/ node.fontSize[1] = 0
                                THEN 14 ELSE node.fontSize[1])
                      ELSE None,
         fontWeight |-> IF hasText
                        THEN Some(IF node.fontWeight = None \/ node.fontWeight[1] = 0
                                  THEN 400 ELSE node.fontWeight[1])
                        ELSE None]

\* if (props.field): a number that is present and not 0, a string that is
\* present and not empty
truthyNumber(option) == option # None /\ option[1] # 0
truthyString(option) == option # None /\ option[1] # <<>>

\* utility classes whose font-size step is taken on the font size itself
tailwindClassList_ByPixels(props) ==
    (IF props.dimensions # None
     THEN << <<"w-[", ToString(MathRound(props.dimensions[1].width)), "px]">>,
             <<"h-[", ToString(MathRound(props.dimensions[1].height)), "px]">> >>
     ELSE <<>>)
    \o (IF truthyString(props.backgroundColor)
        THEN << <<"bg-[">> \o props.backgroundColor[1] \o <<"]">> >>
        ELSE <<>>)
    \o (IF truthyNumber(props.fontSize)
        THEN << IF props.fontSize[1] > 16
                THEN <<"text-", "[", ToString(props.fontSize[1]), "px]">>
                ELSE <<"text-", ToString((props.fontSize[1] + 2) \div 4)>> >>
        ELSE <<>>)

\* the utility classes, before classes.join(' ')
tailwindClassList(props) ==
    (IF props.dimensions # None
     THEN << <<"w-[", ToString(MathRound(props.dimensions[1].width)), "px]">>,
             <<"h-[", ToString(MathRound(props.dimensions[1].height)), "px]">> >>
     ELSE <<>>)
    \o (IF truthyString(props.backgroundColor)
        THEN << <<"bg-[">> \o props.backgroundColor[1] \o <<"]">> >>
        ELSE <<>>)
    \o (IF truthyNumber(props.fontSize)
        THEN LET size == (props.fontSize[1] + 2) \div 4
             IN  << IF size > 16
                    THEN <<"text-", "[", ToString(props.fontSize[1]), "px]">>
                    ELSE <<"text-", ToString(size)>> >>
        ELSE <<>>)

generateTailwindClasses(props) == joinWith(tailwindClassList(props), <<" ">>)

generateCSSClasses(props) == <<"component-auto-generated">>

\* the style object: a sequence of key/value entries in insertion order
styleObjectToCSS(props) ==
    (IF props.dimensions # None
     THEN << [key |-> "width",
              value |-> formatTenths(props.dimensions[1].width) \o <<"px">>],
             [key |-> "height",
              value |-> formatTenths(props.dimensions[1].height) \o <<"px">>] >>
     ELSE <<>>)
    \o (IF truthyString(props.backgroundColor)
        THEN << [key |-> "background-color", value |-> props.backgroundColor[1]] >>
        ELSE <<>>)
    \o (IF truthyNumber(props.fontSize)
        THEN << [key |-> "font-size", value |-> <<ToString(props.fontSize[1]), "px">>] >>
        ELSE <<>>)
    \o (IF truthyNumber(props.fontWeight)
        THEN << [key |-> "font-weight", value |-> <<ToString(props.fontWeight[1])>>] >>
        ELSE <<>>)

generateCSSContent(props) ==
    LET styles == styleObjectToCSS(props)
    IN  joinWith([i \in 1..Len(styles) |->
                     <<"  ", styles[i].key, ": ">> \o styles[i].value \o <<";">>],
                 <<"\n">>)

\* str.replace(/([A-Z])/g, '-$1')
RECURSIVE dashBeforeUpper(_)
dashBeforeUpper(s) ==
    IF s = <<>> THEN <<>>
    ELSE (IF Head(s) \in UpperChars THEN <<"-", Head(s)>> ELSE <<Head(s)>>)
         \o dashBeforeUpper(Tail(s))

\* .toLowerCase().replace(/^-/, '')
toKebabCase(str) ==
    LET lowered == toLowerCase(dashBeforeUpper(str))
    IN  IF lowered # <<>> /\ Head(lowered) = "-" THEN Tail(lowered) ELSE lowered

(***************************************************************************)
(* DesignToCode (index.ts): the three renderers and generateComponent      *)
(***************************************************************************)
\* this.config.tailwind ? generateTailwindClasses(props) : generateCSSClasses(props)
classNames(config, props) ==
    IF config.tailwind THEN generateTailwindClasses(props) ELSE generateCSSClasses(props)

DTC_generateReactComponent(config, node, props) ==
    LET componentName == DTC_toPascalCase(props.name)
        isTS == config.typescript
    IN  <<"import React">> \o (IF isTS THEN <<", { FC }">> ELSE <<>>)
        \o <<" from 'react';\n">>
        \o (IF config.includeStyles /\ ~config.tailwind
            THEN <<"import styles from './">> \o componentName \o <<".module.css';\n">>
            ELSE <<>>)
        \o <<"\n\n">>
        \o (IF isTS
            THEN <<"\ninterface Props {\n  children?: React.ReactNode;\n  className?: string;\n}\n">>
            ELSE <<>>)
        \o <<"\n/**\n * ">> \o componentName
        \o <<" Component\n * Auto-generated from Figma design\n * Original Figma ID: ">>
        \o <<props.id>> \o <<"\n */\nconst ">> \o componentName
        \o (IF isTS THEN <<": React.FC<Props>">> ELSE <<>>)
        \o <<" = ({ children, className = '' }) => {\n  return (\n    <div\n      className=\"">>
        \o classNames(config, props)
        \o <<" ${className}\"\n      role=\"presentation\"\n      data-testid=\"">>
        \o toKebabCase(componentName)
        \o <<"\"\n    >\n      {children}\n    </div>\n  );\n};\n\nexport default ">>
        \o componentName \o <<";\nexport { ">> \o componentName \o <<" };\n">>

DTC_generateVueComponent(config, node, props) ==
    LET componentName == DTC_toPascalCase(props.name)
    IN  <<"<template>\n  <div\n    :class=\"['">> \o classNames(config, props)
        \o <<"', className]\"\n    role=\"presentation\"\n    :data-testid=\"testId\"\n  >\n    <slot></slot>\n  </div>\n</template>\n\n<script">>
        \o (IF config.typescript THEN <<" lang=\"ts\"">> ELSE <<>>)
        \o <<">\n">>
        \o (IF config.typescript
            THEN <<"\ninterface Props {\n  className?: string;\n}\n">> ELSE <<>>)
        \o <<"\nexport default {\n  name: '">> \o componentName
        \o <<"',\n  props: {\n    className: {\n      type: String,\n      default: ''\n    }\n  },\n  data() {\n    return {\n      testId: '">>
        \o toKebabCase(componentName)
        \o <<"'\n    };\n  }\n};\n">>
        \o <<"\n</script>\n\n<style">>
        \o (IF config.tailwind THEN <<>> ELSE <<" scoped">>)
        \o <<">\n">>
        \o (IF ~config.tailwind THEN generateCSSContent(props)
            ELSE <<"/* Tailwind CSS is enabled */">>)
        \o <<"\n</style>\n">>

\* Object.entries(styles).join('\n    '): an entry prints as key,value
svelteStyleEntries(props) ==
    LET styles == styleObjectToCSS(props)
    IN  joinWith([i \in 1..Len(styles) |-> <<styles[i].key, ",">> \o styles[i].value],
                 <<"\n    ">>)

DTC_generateSvelteComponent(config, node, props) ==
    LET componentName == DTC_toPascalCase(props.name)
    IN  <<"<script">> \o (IF config.typescript THEN <<" lang=\"ts\"">> ELSE <<>>)
        \o <<">\n  let className = '';\n  export { className as class };\n  \n  ">>
        \o (IF config.typescript
            THEN <<"\n  interface Props {\n    class?: string;\n  }\n  ">> ELSE <<>>)
        \o <<"\n\n  const testId = '">> \o toKebabCase(componentName)
        \o <<"';\n</script>\n\n<div\n  class=\"">> \o classNames(config, props)
        \o <<" {className}\"\n  role=\"presentation\"\n  data-testid=\"{testId}\"\n>\n  <slot></slot>\n</div>\n\n<style">>
        \o (IF ~config.tailwind THEN <<" scoped">> ELSE <<>>)
        \o <<">\n  ">>
        \o (IF ~config.tailwind
            THEN <<"\n  div {\n    ">> \o svelteStyleEntries(props) \o <<"\n  }\n  ">>
            ELSE <<"/* Tailwind CSS is enabled */">>)
        \o <<"\n</style>\n">>

\* the { code, filename } pair
generateComponent(config, node) ==
    LET props == extractProps(node)
        componentName == DTC_toPascalCase(props.name)
        code == CASE config.framework = "react" -> DTC_generateReactComponent(config, node, props)
                  [] config.framework = "vue" -> DTC_generateVueComponent(config, node, props)
                  [] config.framework = "svelte" -> DTC_generateSvelteComponent(config, node, props)
                  [] OTHER -> <<>>
        ext == CASE config.framework = "react" ->
                        IF config.typescript THEN <<"tsx">> ELSE <<"jsx">>
                 [] config.framework = "vue" -> <<"vue">>
                 [] config.framework = "svelte" -> <<"svelte">>
                 [] OTHER -> <<>>
    IN  [code |-> code, filename |-> componentName \o <<".">> \o ext]

\* nodes.map(node => this.generateComponent(node))
processDesign(config, nodes) ==
    [i \in 1..Len(nodes) |-> generateComponent(config, nodes[i])]

(***************************************************************************)
(* Raw names                                                               *)
(***************************************************************************)
\* U+212A is the Kelvin sign, U+0131 the dotless i, U+03A3 the capital sigma
\* U+1C89 has a lower-case partner, and U+0295 is not cased, from Unicode 17 on
NameChars ==
    {"a", "B", "1", " ", "\r", "-", "_", "!", "é", "ß", "U+212A", "U+0131", "U+03A3",
     "U+1C89", "U+0295"}

RECURSIVE SeqsUpTo(_, _)
SeqsUpTo(S, n) ==
    IF n = 0 THEN {<<>>}
    ELSE LET shorter == SeqsUpTo(S, n - 1)
         IN  shorter \cup {Append(s, c) : s \in shorter, c \in S}

RECURSIVE Repeat(_, _)
Repeat(s, n) == IF n = 0 THEN <<>> ELSE s \o Repeat(s, n - 1)

ShortNames(len) == SeqsUpTo(NameChars, len)

\* the short names, and names longer than SliceLimit
RawNames(len, times) ==
    ShortNames(len)
    \cup {Repeat(s, times) : s \in {t \in SeqsUpTo(NameChars, 2) : Len(t) = 2}}

(***************************************************************************)
(* Nodes                                                                   *)
(***************************************************************************)
Frameworks == {"react", "vue", "svelte"}

\* a FigmaNode; the fields a document leaves out are None
Node(id, name, type, visible, textContent, children) ==
    [id |-> id, name |-> name, type |-> type, visible |-> visible,
     absoluteBoundingBox |-> None, fills |-> <<>>,
     textContent |-> textContent, characters |-> textContent,
     fontSize |-> None, fontWeight |-> None,
     children |-> children]

\* nodes with names that are empty, that collide after sanitizing, and
\* that do not
NodePool ==
    { Node("0", name, type, visible, None, <<>>) :
        name \in { <<>>, <<"a">>, <<"A", "!">>, <<"b", " ", "c">> },
        type \in {"COMPONENT"}, visible \in {"absent", "true", "false"} }

\* the node lists of at most n nodes, each node's id its place in the list
NodeLists(pool, n) ==
    UNION { { [i \in 1..k |-> [f[i] EXCEPT !.id = ToString(i)]] : f \in [1..k -> pool] } :
            k \in 0..n }

\* text contents with no, one, several, repeated and broken placeholders
TextSamples ==
    { None,
      Some(<<"h", "i">>),
      Some(<<"$", "{", "x", "}">>),
      Some(<<"$", "{", "y", "}", "h", "$", "{", "x", "}", "$", "{", "y", "}">>),
      Some(<<"$", "{", "}", "$", "{", "x">>) }

\* the children of a rendered node: text layers, shapes carrying a text,
\* and a group with a text layer of its own
ChildPool ==
    { Node("0", <<"t">>, "TEXT", visible, text, <<>>) :
        visible \in {"absent", "false"}, text \in TextSamples \ {Some(<<"h", "i">>)} }
    \cup { Node("0", <<"t">>, "TEXT", "true", Some(<<"h", "i">>), <<>>) }
    \cup { Node("0", <<"r">>, "RECTANGLE", visible, Some(<<"$", "{", "z", "}">>), <<>>) :
        visible \in {"absent", "false"} }
    \cup { Node("0", <<"g">>, "GROUP", "absent", None,
                << Node("0", <<"u">>, "TEXT", "absent", Some(<<"$", "{", "w", "}">>), <<>>) >>) }

\* the child lists of at most n children: a layer's name ends in its place
KidLists(pool, n) ==
    { [i \in 1..Len(ns) |-> [ns[i] EXCEPT !.name = Append(@, ToString(i))]] :
        ns \in NodeLists(pool, n) }

\* the nodes handed to the renderers: one frame and its children
RenderNodes(maxKids) ==
    { Node("1", <<"a", " ", "b">>, "FRAME", "absent", Some(<<"o", "k">>), kids) :
        kids \in KidLists(ChildPool, maxKids) }

\* a document tree of n nodes below the document: node i hangs under
\* parent[i] < i (0 is the document), the children of a node in the order
\* of their numbers
TreeNames == << <<"a">>, <<"b">>, <<"a", "b">>, <<"c">>, <<"d">>, <<"e">> >>

RECURSIVE childrenOf(_, _, _, _, _)
childrenOf(parentId, from, n, parent, label) ==
    IF from > n THEN <<>>
    ELSE IF parent[from] = parentId
         THEN << Node(ToString(from), TreeNames[((from - 1) % Len(TreeNames)) + 1],
                      label[from].type, label[from].visible, None,
                      childrenOf(from, from + 1, n, parent, label)) >>
              \o childrenOf(parentId, from + 1, n, parent, label)
         ELSE childrenOf(parentId, from + 1, n, parent, label)

Documents(size) ==
    UNION { { [document |-> [children |-> childrenOf(0, 1, n, parent, label)]] :
                parent \in { p \in [1..n -> 0..(n - 1)] : \A i \in 1..n : p[i] < i },
                label \in [1..n -> [type : {"COMPONENT", "FRAME", "GROUP"},
                                    visible : {"absent", "false"}]] } :
            n \in 0..size }

\* the options handed to new DesignToCode(...)
OptionSets(fw) ==
    { [framework |-> fw, typescript |-> "absent", tailwind |-> "absent",
       includeStyles |-> "absent"],
      [framework |-> fw, typescript |-> "false", tailwind |-> "false",
       includeStyles |-> "absent"] }

(***************************************************************************)
(* The identity functions applied to one raw name                          *)
(***************************************************************************)
IdleLibrary ==
    /\ figmaData = [nodes |-> <<>>]
    /\ frameworkArg = "react"
    /\ converter = DesignToCodeConfig(
                    [framework |-> "absent", typescript |-> "absent",
                     tailwind |-> "absent", includeStyles |-> "absent"])
    /\ results = <<>>
    /\ designs = <<>>
    /\ componentsObject = <<>>
    /\ calls = <<>>

IdleDriver ==
    /\ todo = <<>>
    /\ disk = <<>>
    /\ componentCount = 0
    /\ generatedFrom = <<>>

IdleCli ==
    /\ argv = [command |-> "none"]
    /\ jsonFiles = <<>>
    /\ visited = <<>>
    /\ report = <<>>
    /\ exitCode = None
    /\ outDir = FALSE

\* no name is being normalized; the node names of these runs are ASCII, on
\* which the Unicode versions agree, and the runtime is a current one
IdleNames ==
    /\ unicode = "17.0"
    /\ rawName = <<>>
    /\ displayName = <<>>
    /\ fileSlug = <<>>
    /\ dtcName = <<>>

InitNames ==
    /\ pc = "start"
    /\ unicode \in DOMAIN LowerSeq
    /\ rawName \in RawNames(MaxNameLen, LongRepeat)
    /\ displayName = <<>>
    /\ fileSlug = <<>>
    /\ dtcName = <<>>
    /\ IdleLibrary
    /\ IdleDriver
    /\ IdleCli

Normalize ==
    /\ pc = "start"
    /\ pc' = "named"
    /\ displayName' = toPascalCase(rawName)
    /\ fileSlug' = sanitizeFileName(rawName)
    /\ dtcName' = DTC_toPascalCase(sanitizeName(rawName))
    /\ UNCHANGED <<unicode, rawName, libraryVars, driverVars, cliVars>>

NextNames == Normalize

SpecNames == InitNames /\ [][NextNames]_vars

(***************************************************************************)
(* The library: convertFigmaToCode and DesignToCode.processDesign called   *)
(* on one FigmaFile, any number of times                                   *)
(***************************************************************************)
\* a history of the last two values
remember(history, value) ==
    IF Len(history) < 2 THEN Append(history, value) ELSE <<history[2], value>>

InitConvert ==
    /\ pc = "ready"
    /\ IdleNames
    /\ IdleDriver
    /\ IdleCli
    /\ figmaData \in { [nodes |-> ns] : ns \in NodeLists(NodePool, MaxNodes) }
    /\ frameworkArg \in Frameworks
    /\ converter \in { DesignToCodeConfig(o) : o \in OptionSets(frameworkArg) }
    /\ results = <<>>
    /\ designs = <<>>
    /\ componentsObject = <<>>
    /\ calls = <<>>

\* const result = await convertFigmaToCode(figmaData, frameworkArg)
Convert ==
    /\ pc = "ready"
    /\ results' = remember(results, convertFigmaToCode(figmaData, frameworkArg))
    /\ UNCHANGED <<pc, nameVars, driverVars, cliVars, figmaData, frameworkArg, converter,
                   designs, componentsObject, calls>>

\* const components = converter.processDesign(nodes)
ProcessDesign ==
    /\ pc = "ready"
    /\ designs' = remember(designs, processDesign(converter, figmaData.nodes))
    /\ UNCHANGED <<pc, nameVars, driverVars, cliVars, figmaData, frameworkArg, converter,
                   results, componentsObject, calls>>

NextLibrary == Convert \/ ProcessDesign

SpecConvert == InitConvert /\ [][NextLibrary]_vars

(***************************************************************************)
(* The library called again and again by one program, on inputs and        *)
(* settings the caller picks anew for each call.  convertFigmaToCode is    *)
(* followed statement by statement, so that what a call leaves behind is   *)
(* there when the next call starts.                                        *)
(***************************************************************************)
\* the node lists the caller hands over: one node, two nodes, and a list
\* with a hidden node between two others
CallInputs ==
    LET a == Node("1", <<"a">>, "COMPONENT", "absent", None, <<>>)
        b == Node("2", <<"b", " ", "c">>, "COMPONENT", "true", None, <<>>)
        h == Node("3", <<"A", "!">>, "COMPONENT", "false", None, <<>>)
    IN  { <<a>>, <<a, b>>, <<b, h, a>> }

\* the calls that have returned, the last three
recordCall(history, call) ==
    IF Len(history) < 3 THEN Append(history, call) ELSE Append(Tail(history), call)

InitCalls ==
    /\ pc = "ready"
    /\ IdleNames
    /\ IdleDriver
    /\ IdleCli
    /\ figmaData = [nodes |-> <<>>]
    /\ frameworkArg = "react"
    /\ converter \in { DesignToCodeConfig(o) : o \in OptionSets("vue") }
    /\ results = <<>>
    /\ designs = <<>>
    /\ componentsObject = <<>>
    /\ calls = <<>>

\* a call whose components object is the one the call before left
CallConvert_SharedComponents ==
    /\ pc = "ready"
    /\ \E ns \in CallInputs, fw \in Frameworks :
          /\ figmaData' = [nodes |-> ns]
          /\ frameworkArg' = fw
          /\ todo' = filterValid(ns)
    /\ pc' = "inLoop"
    /\ UNCHANGED <<nameVars, converter, results, designs, componentsObject, calls,
                   disk, componentCount, generatedFrom, cliVars>>

\* convertFigmaToCode(figmaFile, framework) up to its loop: the arguments
\* of the caller, const components = {}, and validNodes
CallConvert ==
    /\ pc = "ready"
    /\ \E ns \in CallInputs, fw \in Frameworks :
          /\ figmaData' = [nodes |-> ns]
          /\ frameworkArg' = fw
          /\ todo' = filterValid(ns)
    /\ componentsObject' = <<>>
    /\ pc' = "inLoop"
    /\ UNCHANGED <<nameVars, converter, results, designs, calls,
                   disk, componentCount, generatedFrom, cliVars>>

\* one turn of the loop over validNodes
ConvertNode ==
    /\ pc = "inLoop"
    /\ todo # <<>>
    /\ LET node == Head(todo)
           filename == sanitizeFileName(node.name)
           code == generateComponentCode(node, frameworkArg)
       IN  componentsObject' = setKey(componentsObject, filename \o <<".", "tsx">>, code)
    /\ todo' = Tail(todo)
    /\ UNCHANGED <<pc, nameVars, figmaData, frameworkArg, converter, results, designs, calls,
                   disk, componentCount, generatedFrom, cliVars>>

\* after the loop: the manifest, and the return of {components, index}
ConvertReturn ==
    /\ pc = "inLoop"
    /\ todo = <<>>
    /\ calls' = recordCall(calls,
           [fn |-> "convertFigmaToCode", nodes |-> figmaData.nodes, setting |-> frameworkArg,
            returned |-> Some([components |-> componentsObject,
                               index |-> generateIndexFile(filterValid(figmaData.nodes),
                                                           frameworkArg)])])
    /\ pc' = "ready"
    /\ UNCHANGED <<nameVars, figmaData, frameworkArg, converter, results, designs,
                   componentsObject, driverVars, cliVars>>

\* converter.processDesign(nodes) on the converter the program built
CallProcessDesign ==
    /\ pc = "ready"
    /\ \E ns \in CallInputs :
          /\ figmaData' = [nodes |-> ns]
          /\ calls' = recordCall(calls,
                 [fn |-> "processDesign", nodes |-> ns, setting |-> converter,
                  returned |-> processDesign(converter, ns)])
    /\ UNCHANGED <<pc, nameVars, frameworkArg, converter, results, designs,
                   componentsObject, driverVars, cliVars>>

NextCalls ==
    \/ CallConvert
    \/ ConvertNode
    \/ ConvertReturn
    \/ CallProcessDesign

SpecCalls == InitCalls /\ [][NextCalls]_vars

\* the renderers applied to one frame with children
InitRender ==
    /\ pc = "ready"
    /\ IdleNames
    /\ IdleDriver
    /\ IdleCli
    /\ figmaData \in { [nodes |-> <<n>>] : n \in RenderNodes(MaxKids) }
    /\ frameworkArg \in Frameworks
    /\ converter = DesignToCodeConfig(
                       [framework |-> frameworkArg, typescript |-> "absent",
                        tailwind |-> "absent", includeStyles |-> "absent"])
    /\ results = <<>>
    /\ designs = <<>>
    /\ componentsObject = <<>>
    /\ calls = <<>>

SpecRender == InitRender /\ [][NextLibrary]_vars

(***************************************************************************)
(* The style path: one node carrying geometry, fills and typography        *)
(***************************************************************************)
\* paints: a colour's channels are in hundredths
FillLists ==
    LET SolidFill == [type |-> "SOLID", color |-> Some([r |-> 40, g |-> 40, b |-> 94])]
        WhiteFill == [type |-> "SOLID", color |-> Some([r |-> 100, g |-> 100, b |-> 100])]
        BareSolidFill == [type |-> "SOLID", color |-> None]
        GradientFill == [type |-> "GRADIENT_LINEAR", color |-> None]
        ImageFill == [type |-> "IMAGE", color |-> Some([r |-> 0, g |-> 50, b |-> 3])]
    IN  { <<>>, <<SolidFill>>, <<WhiteFill, GradientFill>>, <<BareSolidFill>>,
          <<GradientFill, SolidFill>>, <<ImageFill>> }

\* the styled nodes.  Boxes: bounding boxes, in tenths: whole, fractional
\* and half-way values.  Typography: the text of a node and its font size:
\* none, missing, zero, and sizes on both sides of the steps of
\* generateTailwindClasses
StyleNodes ==
    LET Boxes ==
            { None,
              Some([width |-> 1004, height |-> 400]),
              Some([width |-> 25, height |-> 5]),
              Some([width |-> 996, height |-> 1]) }
        Typography ==
            { [characters |-> None, fontSize |-> Some(20)] }
            \cup { [characters |-> Some(<<"h", "i">>), fontSize |-> size] :
                     size \in {None, Some(0), Some(14), Some(16), Some(17), Some(20),
                               Some(65), Some(66), Some(72)} }
        StyleNames ==
            { <<"S", "u", "b", "m", "i", "t", " ", "B", "u", "t", "t", "o", "n">>,
              <<"n", "a", "v", "-", "b", "a", "r">> }
    IN  { [Node("1", name, "FRAME", "absent", None, <<>>) EXCEPT
              !.absoluteBoundingBox = box, !.fills = fills,
              !.characters = typo.characters, !.fontSize = typo.fontSize] :
            name \in StyleNames, box \in Boxes, fills \in FillLists, typo \in Typography }

\* the options handed to new DesignToCode(...) on the style path
StyleOptions(fw) ==
    { [framework |-> fw, typescript |-> "absent", tailwind |-> tw,
       includeStyles |-> "absent"] : tw \in {"absent", "true", "false"} }

InitStyle ==
    /\ pc = "ready"
    /\ IdleNames
    /\ IdleDriver
    /\ IdleCli
    /\ figmaData \in { [nodes |-> <<n>>] : n \in StyleNodes }
    /\ frameworkArg \in Frameworks
    /\ converter \in { DesignToCodeConfig(o) : o \in StyleOptions(frameworkArg) }
    /\ results = <<>>
    /\ designs = <<>>
    /\ componentsObject = <<>>
    /\ calls = <<>>

SpecStyle == InitStyle /\ [][NextLibrary]_vars

(***************************************************************************)
(* cli.ts (yargs): the convert command                                     *)
(***************************************************************************)
\* A file of the output directory is [key |-> its name, value |-> [text, cut]]:
\* with cut = FALSE the file holds text, with cut = TRUE it holds the
\* beginning of text, at least one character of it and not all of it.
\*
\* fs.writeFile(filepath, code) and fs.writeFileSync(filepath, code) that
\* succeed: the file holds code; a file written again keeps its place
writeFile(files, filename, code) == setKey(files, filename, [text |-> code, cut |-> FALSE])

\* what a write that fails can leave behind.  The file is opened for
\* writing, which empties a file already there, and then written: an open
\* that fails (EACCES, EISDIR) leaves the directory as it was; a write
\* that fails after the open (ENOSPC, EFBIG, EIO) leaves the file empty or
\* with the beginning of code
failedWrite(files, filename, code) ==
    { files, setKey(files, filename, [text |-> <<>>, cut |-> FALSE]) }
    \cup (IF code = <<>> THEN {}
          ELSE { setKey(files, filename, [text |-> code, cut |-> TRUE]) })

\* a line on the console
Line(text, file) == [text |-> text, file |-> file]

\* A run of the yargs command line starts at main (argv.entry = "main":
\* the program started from the command line) or at the handler of the
\* command (argv.entry = "handler": a call of the handler with the
\* arguments main's dispatch would hand it).
\*
\* main: `await argv` yields the yargs builder and not the parsed
\* arguments, so parsed._ is undefined and the test of parsed._[0] throws
\* a TypeError before either handler is called; the catch of main reports
\* it and exits with code 1
Main ==
    /\ pc = "start"
    /\ argv.entry = "main"
    /\ report' = Append(report,
           Line("Error:", <<"Cannot read properties of undefined (reading '0')">>))
    /\ exitCode' = Some(1)
    /\ pc' = "exited"
    /\ UNCHANGED <<nameVars, libraryVars, driverVars, argv, jsonFiles, visited, outDir>>

\* figmaData.document?.children, an absent list being an empty one
documentChildren(data) ==
    IF "document" \in DOMAIN data THEN data.document.children ELSE <<>>

\* the file the convert command is pointed at: None when it does not
\* exist; content None is a file readJsonSync rejects; the last is a JSON
\* object without a document
ConvertFiles(size) ==
    {None, Some([content |-> None]), Some([content |-> Some([name |-> <<"f">>])])}
    \cup { Some([content |-> Some(d)]) : d \in Documents(size) }

InitHandleConvert ==
    /\ pc = "start"
    /\ IdleNames
    /\ figmaData = [nodes |-> <<>>]
    /\ frameworkArg \in Frameworks
    /\ converter = DesignToCodeConfig(
                       [framework |-> "absent", typescript |-> "absent",
                        tailwind |-> "absent", includeStyles |-> "absent"])
    /\ results = <<>>
    /\ designs = <<>>
    /\ componentsObject = <<>>
    /\ calls = <<>>
    /\ IdleDriver
    /\ argv \in { [entry |-> e, command |-> "convert", file |-> f] :
                    e \in {"main", "handler"}, f \in ConvertFiles(MaxTreeNodes) }
    /\ jsonFiles = <<>>
    /\ visited = <<>>
    /\ report = <<>>
    /\ exitCode = None
    /\ outDir = FALSE

\* handleConvert up to its first await: existsSync, readJsonSync and new
\* DesignToCode with the options as yargs defaults them; a file that is
\* missing or does not parse throws, and the catch of main reports the
\* error and exits with code 1
HandleConvert ==
    /\ pc = "start"
    /\ argv.entry = "handler"
    /\ argv.command = "convert"
    /\ IF argv.file = None \/ argv.file[1].content = None
       THEN /\ report' = Append(report,
                   Line("Error:", IF argv.file = None THEN <<"File not found">>
                                  ELSE <<"JSON">>))
            /\ exitCode' = Some(1)
            /\ pc' = "exited"
            /\ UNCHANGED <<figmaData, converter>>
       ELSE /\ figmaData' = argv.file[1].content[1]
            /\ converter' = DesignToCodeConfig(
                                [framework |-> frameworkArg, typescript |-> "true",
                                 tailwind |-> "false", includeStyles |-> "absent"])
            /\ pc' = "ensureDir"
            /\ UNCHANGED <<report, exitCode>>
    /\ UNCHANGED <<nameVars, frameworkArg, results, designs, componentsObject, calls,
                   driverVars,
                   argv, jsonFiles, visited, outDir>>

\* await fs.ensureDir(options.output) resolves; componentCount = 0 and the
\* loop over figmaData.document?.children begins
EnsureDir ==
    /\ pc = "ensureDir"
    /\ outDir' = TRUE
    /\ componentCount' = 0
    /\ todo' = documentChildren(figmaData)
    /\ pc' = "walking"
    /\ UNCHANGED <<nameVars, libraryVars, disk, generatedFrom,
                   argv, jsonFiles, visited, report, exitCode>>

\* await fs.ensureDir(options.output) rejects: the catch of main
EnsureDirFails ==
    /\ pc = "ensureDir"
    /\ report' = Append(report, Line("Error:", <<"ensureDir">>))
    /\ exitCode' = Some(1)
    /\ pc' = "exited"
    /\ UNCHANGED <<nameVars, libraryVars, driverVars, argv, jsonFiles, visited, outDir>>

\* one call of processNode up to its await: for a COMPONENT or FRAME,
\* generateComponent and the start of fs.writeFile; for another node, on
\* to the calls for its children
ProcessNode ==
    /\ pc = "walking"
    /\ todo # <<>>
    /\ LET node == Head(todo)
       IN  IF node.type = "COMPONENT" \/ node.type = "FRAME"
           THEN /\ generatedFrom' = Append(generatedFrom, node)
                /\ pc' = "writing"
                /\ UNCHANGED todo
           ELSE /\ todo' = node.children \o Tail(todo)
                /\ UNCHANGED <<pc, generatedFrom>>
    /\ UNCHANGED <<nameVars, libraryVars, disk, componentCount, cliVars>>

\* the fs.writeFile of processNode writes the file; its promise resolves
WriteFile ==
    /\ pc = "writing"
    /\ LET made == generateComponent(converter, Head(todo))
       IN  disk' = writeFile(disk, made.filename, made.code)
    /\ pc' = "written"
    /\ UNCHANGED <<nameVars, libraryVars, todo, componentCount, generatedFrom, cliVars>>

\* the fs.writeFile of processNode rejects, leaving what a failed write
\* leaves at the path: handleConvert rejects, and the catch of main
\* reports the error and exits with code 1
WriteFileFails ==
    /\ pc = "writing"
    /\ LET made == generateComponent(converter, Head(todo))
       IN  disk' \in failedWrite(disk, made.filename, made.code)
    /\ report' = Append(report, Line("Error:", <<"writeFile">>))
    /\ exitCode' = Some(1)
    /\ pc' = "exited"
    /\ UNCHANGED <<nameVars, libraryVars, todo, componentCount, generatedFrom,
                   argv, jsonFiles, visited, outDir>>

\* processNode after its await: componentCount++, then the calls for the
\* node's children
ProcessNodeResume ==
    /\ pc = "written"
    /\ componentCount' = componentCount + 1
    /\ todo' = Head(todo).children \o Tail(todo)
    /\ pc' = "walking"
    /\ UNCHANGED <<nameVars, libraryVars, disk, generatedFrom, cliVars>>

\* the report after the last processNode
HandleConvertDone ==
    /\ pc = "walking"
    /\ todo = <<>>
    /\ report' = Append(report, Line("Generated", <<ToString(componentCount)>>))
    /\ pc' = "done"
    /\ UNCHANGED <<nameVars, libraryVars, driverVars, argv, jsonFiles, visited,
                   exitCode, outDir>>

NextHandleConvert ==
    \/ Main
    \/ HandleConvert
    \/ EnsureDir
    \/ EnsureDirFails
    \/ ProcessNode
    \/ WriteFile
    \/ WriteFileFails
    \/ ProcessNodeResume
    \/ HandleConvertDone

SpecHandleConvert == InitHandleConvert /\ [][NextHandleConvert]_vars

(***************************************************************************)
(* cli.ts (yargs): the batch command                                       *)
(***************************************************************************)
\* f.endsWith('.json'), on a file name given as its parts
endsWithJson(name) == Len(name) >= 2 /\ SubSeq(name, Len(name) - 1, Len(name)) = <<".", "json">>

\* the documents the files of a directory hold
BatchDocuments ==
    { d \in Documents(2) :
        /\ \A i \in 1..Len(d.document.children) :
              /\ d.document.children[i].visible = "absent"
              /\ d.document.children[i].type \in {"COMPONENT", "GROUP"}
              /\ \A j \in 1..Len(d.document.children[i].children) :
                    /\ d.document.children[i].children[j].visible = "absent"
                    /\ d.document.children[i].children[j].type = "COMPONENT"
        /\ Len(d.document.children) <= 1 }

\* the listings of at most n entries; an entry's name starts with its
\* place.  The entries of a directory: JSON files that parse, one that
\* does not, and a file of another kind; content None is a file
\* readJsonSync rejects
Listings(n) ==
    LET DirectoryEntries ==
            { [name |-> <<"d", ".", "json">>, content |-> Some(d)] : d \in BatchDocuments }
            \cup { [name |-> <<"x", ".", "json">>, content |-> None],
                   [name |-> <<"n", ".", "txt">>, content |-> None] }
    IN  UNION { { [i \in 1..k |-> [f[i] EXCEPT !.name = <<ToString(i)>> \o @]] :
                    f \in [1..k -> DirectoryEntries] } : k \in 0..n }

InitHandleBatch ==
    /\ pc = "start"
    /\ IdleNames
    /\ figmaData = [nodes |-> <<>>]
    /\ frameworkArg \in Frameworks
    /\ converter = DesignToCodeConfig(
                       [framework |-> "absent", typescript |-> "absent",
                        tailwind |-> "absent", includeStyles |-> "absent"])
    /\ results = <<>>
    /\ designs = <<>>
    /\ componentsObject = <<>>
    /\ calls = <<>>
    /\ IdleDriver
    /\ argv \in { [entry |-> e, command |-> "batch", directory |-> dir] :
                    e \in {"main", "handler"},
                    dir \in {None} \cup { Some(l) : l \in Listings(MaxFiles) } }
    /\ jsonFiles = <<>>
    /\ visited = <<>>
    /\ report = <<>>
    /\ exitCode = None
    /\ outDir = FALSE

\* handleBatch up to its loop; a directory that does not exist throws, and
\* main reports the error and exits with code 1
HandleBatch ==
    /\ pc = "start"
    /\ argv.entry = "handler"
    /\ argv.command = "batch"
    /\ IF argv.directory = None
       THEN /\ report' = Append(report, Line("Error:", <<>>))
            /\ exitCode' = Some(1)
            /\ pc' = "exited"
            /\ UNCHANGED <<jsonFiles, componentCount>>
       ELSE LET found == SelectSeq(argv.directory[1], LAMBDA f : endsWithJson(f.name))
            IN  IF Len(found) = 0
                THEN /\ report' = Append(report, Line("No JSON files found in directory", <<>>))
                     /\ pc' = "done"
                     /\ UNCHANGED <<jsonFiles, componentCount, exitCode>>
                ELSE /\ jsonFiles' = found
                     /\ componentCount' = 0
                     /\ pc' = "batchLoop"
                     /\ UNCHANGED <<report, exitCode>>
    /\ UNCHANGED <<nameVars, libraryVars, todo, disk, generatedFrom, argv, visited, outDir>>

\* one turn of the loop up to its first await: readJsonSync and new
\* DesignToCode({framework, outputDir}); a file that does not parse is
\* reported by the catch and the loop goes on
BatchOpenFile ==
    /\ pc = "batchLoop"
    /\ jsonFiles # <<>>
    /\ LET file == Head(jsonFiles)
       IN  /\ visited' = Append(visited, file.name)
           /\ IF file.content = None
              THEN /\ report' = Append(report, Line("Error processing", file.name))
                   /\ jsonFiles' = Tail(jsonFiles)
                   /\ UNCHANGED <<pc, figmaData, converter>>
              ELSE /\ figmaData' = file.content[1]
                   /\ converter' = DesignToCodeConfig(
                                      [framework |-> frameworkArg, typescript |-> "absent",
                                       tailwind |-> "absent", includeStyles |-> "absent"])
                   /\ pc' = "batchEnsureDir"
                   /\ UNCHANGED <<report, jsonFiles>>
    /\ UNCHANGED <<nameVars, frameworkArg, results, designs, componentsObject, calls,
                   driverVars,
                   argv, exitCode, outDir>>

\* await fs.ensureDir(options.output) resolves; the loop over
\* figmaData.document?.children begins
BatchEnsureDir ==
    /\ pc = "batchEnsureDir"
    /\ outDir' = TRUE
    /\ todo' = documentChildren(figmaData)
    /\ pc' = "batchWalking"
    /\ UNCHANGED <<nameVars, libraryVars, disk, componentCount, generatedFrom,
                   argv, jsonFiles, visited, report, exitCode>>

\* await fs.ensureDir(options.output) rejects: the catch of the loop
\* reports it and the loop goes on with the next file
BatchEnsureDirFails ==
    /\ pc = "batchEnsureDir"
    /\ report' = Append(report, Line("Error processing", Head(jsonFiles).name))
    /\ jsonFiles' = Tail(jsonFiles)
    /\ pc' = "batchLoop"
    /\ UNCHANGED <<nameVars, libraryVars, driverVars, argv, visited, exitCode, outDir>>

\* one call of processNode up to its await: for a COMPONENT or FRAME,
\* generateComponent and the start of fs.writeFile; for another node, on
\* to the calls for its children
BatchProcessNode ==
    /\ pc = "batchWalking"
    /\ todo # <<>>
    /\ LET node == Head(todo)
       IN  IF node.type = "COMPONENT" \/ node.type = "FRAME"
           THEN /\ generatedFrom' = Append(generatedFrom, node)
                /\ pc' = "batchWriting"
                /\ UNCHANGED todo
           ELSE /\ todo' = node.children \o Tail(todo)
                /\ UNCHANGED <<pc, generatedFrom>>
    /\ UNCHANGED <<nameVars, libraryVars, disk, componentCount, cliVars>>

\* the fs.writeFile of processNode writes the file; its promise resolves
BatchWriteFile ==
    /\ pc = "batchWriting"
    /\ LET made == generateComponent(converter, Head(todo))
       IN  disk' = writeFile(disk, made.filename, made.code)
    /\ pc' = "batchWritten"
    /\ UNCHANGED <<nameVars, libraryVars, todo, componentCount, generatedFrom, cliVars>>

\* the fs.writeFile of processNode rejects, leaving what a failed write
\* leaves at the path: the catch of the loop reports it and the loop goes
\* on with the next file
BatchWriteFails ==
    /\ pc = "batchWriting"
    /\ LET made == generateComponent(converter, Head(todo))
       IN  disk' \in failedWrite(disk, made.filename, made.code)
    /\ report' = Append(report, Line("Error processing", Head(jsonFiles).name))
    /\ todo' = <<>>
    /\ jsonFiles' = Tail(jsonFiles)
    /\ pc' = "batchLoop"
    /\ UNCHANGED <<nameVars, libraryVars, componentCount, generatedFrom,
                   argv, visited, exitCode, outDir>>

\* processNode after its await: totalComponents++ (componentCount), then
\* the calls for the node's children
BatchProcessNodeResume ==
    /\ pc = "batchWritten"
    /\ componentCount' = componentCount + 1
    /\ todo' = Head(todo).children \o Tail(todo)
    /\ pc' = "batchWalking"
    /\ UNCHANGED <<nameVars, libraryVars, disk, generatedFrom, cliVars>>

\* the end of one turn of the loop
BatchFileDone ==
    /\ pc = "batchWalking"
    /\ todo = <<>>
    /\ jsonFiles' = Tail(jsonFiles)
    /\ pc' = "batchLoop"
    /\ UNCHANGED <<nameVars, libraryVars, driverVars, argv, visited, report, exitCode, outDir>>

\* the report after the loop
HandleBatchDone ==
    /\ pc = "batchLoop"
    /\ jsonFiles = <<>>
    /\ report' = Append(report, Line("Batch complete", <<>>))
    /\ pc' = "done"
    /\ UNCHANGED <<nameVars, libraryVars, driverVars, argv, jsonFiles, visited, exitCode, outDir>>

NextHandleBatch ==
    \/ Main
    \/ HandleBatch
    \/ BatchOpenFile
    \/ BatchEnsureDir
    \/ BatchEnsureDirFails
    \/ BatchProcessNode
    \/ BatchWriteFile
    \/ BatchWriteFails
    \/ BatchProcessNodeResume
    \/ BatchFileDone
    \/ HandleBatchDone

SpecHandleBatch == InitHandleBatch /\ [][NextHandleBatch]_vars

(***************************************************************************)
(* figma-client.ts and cli.ts (parseArgs): the fetch, the conversion and   *)
(* the writes of main                                                      *)
(***************************************************************************)
\* a walk that visits the children of a node before the node itself
RECURSIVE walkFigmaTree_ChildrenFirst(_, _)
RECURSIVE walkChildren_First(_, _)
walkFigmaTree_ChildrenFirst(node, result) ==
    IF node.visible = "false" THEN result
    ELSE LET below == walkChildren_First(node.children, result)
         IN  IF node.type = "COMPONENT" \/ node.type = "FRAME"
             THEN Append(below, node) ELSE below

walkChildren_First(children, result) ==
    IF children = <<>> THEN result
    ELSE walkChildren_First(Tail(children), walkFigmaTree_ChildrenFirst(Head(children), result))

\* walkFigmaTree(node, result): the result array after the call
RECURSIVE walkFigmaTree(_, _)
RECURSIVE walkChildren(_, _)
walkFigmaTree(node, result) ==
    IF node.visible = "false" THEN result
    ELSE LET pushed == IF node.type = "COMPONENT" \/ node.type = "FRAME"
                       THEN Append(result, node) ELSE result
         IN  walkChildren(node.children, pushed)

\* for (const child of node.children) walkFigmaTree(child, result)
walkChildren(children, result) ==
    IF children = <<>> THEN result
    ELSE walkChildren(Tail(children), walkFigmaTree(Head(children), result))

\* a count that looks at the node alone and not below it
countComponentsInNode_Shallow(node) == IF node.type = "COMPONENT" THEN 1 ELSE 0

RECURSIVE countComponentsInNode(_)
RECURSIVE sumComponents(_)
countComponentsInNode(node) ==
    (IF node.type = "COMPONENT" THEN 1 ELSE 0) + sumComponents(node.children)

sumComponents(children) ==
    IF children = <<>> THEN 0
    ELSE countComponentsInNode(Head(children)) + sumComponents(Tail(children))

RECURSIVE countFramesInNode(_)
RECURSIVE sumFrames(_)
countFramesInNode(node) ==
    (IF node.type = "FRAME" THEN 1 ELSE 0) + sumFrames(node.children)

sumFrames(children) ==
    IF children = <<>> THEN 0
    ELSE countFramesInNode(Head(children)) + sumFrames(Tail(children))

\* what fetchFigmaFile returns for a response that holds the document
FigmaFileOf(document) ==
    [nodes |-> walkFigmaTree(document, <<>>),
     componentCount |-> countComponentsInNode(document),
     frameCount |-> countFramesInNode(document),
     raw |-> document]

\* the documents the API answers with: a DOCUMENT node over a tree of n
\* layers; two layers share a file name, one layer has no name; a hidden
\* DOCUMENT node is tried over the trees of at most one layer
RemoteLabels ==
    { [type |-> "COMPONENT", visible |-> "absent"],
      [type |-> "COMPONENT", visible |-> "false"],
      [type |-> "FRAME", visible |-> "absent"],
      [type |-> "GROUP", visible |-> "absent"],
      [type |-> "GROUP", visible |-> "false"] }

RemoteNames == << <<"a">>, <<"b">>, <<"A">>, <<>> >>

RECURSIVE remoteChildren(_, _, _, _, _)
remoteChildren(parentId, from, n, parent, label) ==
    IF from > n THEN <<>>
    ELSE IF parent[from] = parentId
         THEN << Node(ToString(from), RemoteNames[((from - 1) % Len(RemoteNames)) + 1],
                      label[from].type, label[from].visible, None,
                      remoteChildren(from, from + 1, n, parent, label)) >>
              \o remoteChildren(parentId, from + 1, n, parent, label)
         ELSE remoteChildren(parentId, from + 1, n, parent, label)

RemoteDocument(n, parent, label, visible) ==
    Node("0", <<"D", "o", "c">>, "DOCUMENT", visible, None,
         remoteChildren(0, 1, n, parent, label))

\* the command lines of cli.ts with the environment: an option is None
\* when it is not given; outputPath is what is at the path of the output
\* directory when main starts: nothing ("absent"), a directory, something
\* that is not a directory ("file": existsSync is true for it), or nothing
\* at a place where mkdirSync throws ("blocked": no permission, a dangling
\* link); each line differs from the first in one option or in that path
GoodLine ==
    [command |-> "figma", figma |-> Some(<<"f", "1">>), token |-> Some(<<"t">>),
     envToken |-> None, framework |-> None, outputPath |-> "absent"]

CommandLines ==
    {GoodLine}
    \cup { [GoodLine EXCEPT !.figma = v] : v \in {None, Some(<<>>)} }
    \cup { [GoodLine EXCEPT !.token = None, !.envToken = e] : e \in {None, Some(<<"e">>)} }
    \cup { [GoodLine EXCEPT !.framework = Some(f)] :
             f \in {"", "react", "vue", "svelte", "angular"} }
    \cup { [GoodLine EXCEPT !.outputPath = o] : o \in {"directory", "file", "blocked"} }

\* value || fallback on an optional string; the empty string is falsy
orElse(option, fallback) ==
    IF option = None THEN fallback
    ELSE IF option[1] = <<>> THEN fallback ELSE option[1]

\* (args.values.framework as string) || 'react'
frameworkOr(option, fallback) ==
    IF option = None THEN fallback
    ELSE IF option[1] = "" THEN fallback ELSE option[1]

InitCli ==
    /\ pc = "start"
    /\ IdleNames
    /\ IdleLibrary
    /\ IdleDriver
    /\ argv \in CommandLines
    /\ jsonFiles = <<>>
    /\ visited = <<>>
    /\ report = <<>>
    /\ exitCode = None
    /\ outDir = (argv.outputPath = "directory")

\* main up to the request: the three checks of the arguments, then
\* existsSync and mkdirSync on the output directory; mkdirSync is skipped
\* when something is at the path, and when it throws the catch of main
\* reports the error and exits with code 1
CliMain ==
    /\ pc = "start"
    /\ argv.command = "figma"
    /\ LET figmaUrl == orElse(argv.figma, <<>>)
           framework == frameworkOr(argv.framework, "react")
           token == orElse(argv.token, orElse(argv.envToken, <<>>))
       IN  /\ frameworkArg' = framework
           /\ IF figmaUrl = <<>>
              THEN /\ report' = Append(report, Line("Error: --figma is required", <<>>))
                   /\ exitCode' = Some(1)
                   /\ pc' = "exited"
                   /\ UNCHANGED outDir
              ELSE IF token = <<>>
              THEN /\ report' = Append(report,
                          Line("Error: FIGMA_TOKEN not set and --token not provided", <<>>))
                   /\ exitCode' = Some(1)
                   /\ pc' = "exited"
                   /\ UNCHANGED outDir
              ELSE IF framework \notin {"react", "vue", "svelte"}
              THEN /\ report' = Append(report,
                          Line("Error: framework must be react, vue, or svelte", <<>>))
                   /\ exitCode' = Some(1)
                   /\ pc' = "exited"
                   /\ UNCHANGED outDir
              ELSE IF argv.outputPath = "blocked"
              THEN /\ report' = Append(report, Line("Error:", <<"mkdir">>))
                   /\ exitCode' = Some(1)
                   /\ pc' = "exited"
                   /\ UNCHANGED outDir
              ELSE /\ outDir' = (argv.outputPath # "file")
                   /\ pc' = "fetching"
                   /\ UNCHANGED <<report, exitCode>>
    /\ UNCHANGED <<nameVars, figmaData, converter, results, designs, componentsObject, calls,
                   driverVars,
                   argv, jsonFiles, visited>>

\* await fetchFigmaFile(figmaUrl, token) when the request fails, with the
\* status of the response or, when there is no response, "none": the
\* function throws, the catch of main reports it and exits with code 1
CliFetchThrows ==
    /\ pc = "fetching"
    /\ \E status \in {"401", "404", "500", "none"} :
          report' = Append(report,
              Line("Error:", IF status = "401" THEN <<"Invalid Figma token">>
                             ELSE IF status = "404" THEN <<"Figma file not found">>
                             ELSE <<status>>))
    /\ exitCode' = Some(1)
    /\ pc' = "exited"
    /\ UNCHANGED <<nameVars, libraryVars, driverVars, argv, jsonFiles, visited, outDir>>

\* await fetchFigmaFile(figmaUrl, token) when the response holds a
\* document; what it returns is never null, so main goes on
CliFetch ==
    /\ pc = "fetching"
    /\ \E n \in 0..(IF argv = GoodLine THEN MaxTreeNodes ELSE MaxTreeNodes - 1) :
          \E parent \in { p \in [1..n -> 0..(n - 1)] : \A i \in 1..n : p[i] < i },
             label \in [1..n -> RemoteLabels],
             visible \in IF n <= 1 THEN {"absent", "false"} ELSE {"absent"} :
             figmaData' = FigmaFileOf(RemoteDocument(n, parent, label, visible))
    /\ report' = Append(report, Line("Loaded", <<>>))
    /\ pc' = "converting"
    /\ UNCHANGED <<nameVars, frameworkArg, converter, results, designs, componentsObject,
                   calls, driverVars,
                   argv, jsonFiles, visited, exitCode, outDir>>

\* await convertFigmaToCode(figmaData, framework) and the check of its result
CliConvert ==
    /\ pc = "converting"
    /\ LET result == convertFigmaToCode(figmaData, frameworkArg)
       IN  /\ results' = <<result>>
           /\ IF result = None
              THEN /\ report' = Append(report, Line("Conversion failed", <<>>))
                   /\ exitCode' = Some(1)
                   /\ pc' = "exited"
                   /\ UNCHANGED <<todo, componentCount>>
              ELSE /\ todo' = result[1].components
                   /\ componentCount' = 0
                   /\ pc' = "writing"
                   /\ UNCHANGED <<report, exitCode>>
    /\ UNCHANGED <<nameVars, figmaData, frameworkArg, converter, designs, componentsObject, calls,
                   disk, generatedFrom, argv, jsonFiles, visited, outDir>>

\* one turn of the loop over Object.entries(result.components), the
\* output directory being there; componentCount is fileCount
CliWriteComponent ==
    /\ pc = "writing"
    /\ todo # <<>>
    /\ outDir
    /\ disk' = writeFile(disk, Head(todo).key, Head(todo).value)
    /\ componentCount' = componentCount + 1
    /\ report' = Append(report, Line("written", Head(todo).key))
    /\ todo' = Tail(todo)
    /\ UNCHANGED <<pc, nameVars, libraryVars, generatedFrom,
                   argv, jsonFiles, visited, exitCode, outDir>>

\* a writeFileSync that throws: the one of the loop for the next entry of
\* the components map or, after the loop, the one of index.ts.  With the
\* output directory there it leaves what a failed write leaves at the
\* path; when the output path is not a directory every write throws and
\* nothing is created.  The catch of main reports it and exits with code 1
CliWriteFails ==
    /\ pc = "writing"
    /\ IF ~outDir THEN UNCHANGED disk
       ELSE IF todo # <<>>
            THEN disk' \in failedWrite(disk, Head(todo).key, Head(todo).value)
            ELSE disk' \in failedWrite(disk, <<"index", ".", "ts">>, results[1][1].index)
    /\ report' = Append(report, Line("Error:", <<"write">>))
    /\ exitCode' = Some(1)
    /\ pc' = "exited"
    /\ UNCHANGED <<nameVars, libraryVars, todo, componentCount, generatedFrom,
                   argv, jsonFiles, visited, outDir>>

\* a manifest written as soon as the loop has started
CliWriteIndex_Early ==
    /\ pc = "writing"
    /\ outDir
    /\ disk' = writeFile(disk, <<"index", ".", "ts">>, results[1][1].index)
    /\ report' = Append(report, Line("Success", <<>>))
    /\ todo' = <<>>
    /\ pc' = "done"
    /\ UNCHANGED <<nameVars, libraryVars, componentCount, generatedFrom,
                   argv, jsonFiles, visited, exitCode, outDir>>

\* the write of index.ts after the loop, and the report
CliWriteIndex ==
    /\ pc = "writing"
    /\ todo = <<>>
    /\ outDir
    /\ disk' = writeFile(disk, <<"index", ".", "ts">>, results[1][1].index)
    /\ report' = Append(report, Line("Success", <<>>))
    /\ pc' = "done"
    /\ UNCHANGED <<nameVars, libraryVars, todo, componentCount, generatedFrom,
                   argv, jsonFiles, visited, exitCode, outDir>>

NextCli ==
    \/ CliMain
    \/ CliFetchThrows
    \/ CliFetch
    \/ CliConvert
    \/ CliWriteComponent
    \/ CliWriteFails
    \/ CliWriteIndex

SpecCli == InitCli /\ [][NextCli]_vars

(***************************************************************************)
(* Claims                                                                  *)
(***************************************************************************)
\* C1: for every raw name the displayName is non-empty and made of [A-Za-z0-9]
C1_DisplayNameSafe ==
    pc = "named" =>
        /\ displayName # <<>>
        /\ \A i \in 1..Len(displayName) : IsAlnum(displayName[i])

\* C2: for every raw name the fileSlug has 1 to 50 characters of [a-z0-9-]
C2_FileSlugSafe ==
    pc = "named" =>
        /\ Len(fileSlug) >= 1
        /\ Len(fileSlug) <= 50
        /\ \A i \in 1..Len(fileSlug) : IsSlugChar(fileSlug[i])

\* the nodes of the run that convertFigmaToCode keeps, and their file keys
ValidNodes == filterValid(figmaData.nodes)
SlugOf(node) == sanitizeFileName(node.name)
KeyOf(node) == SlugOf(node) \o <<".", "tsx">>
CodeOf(node) == generateComponentCode(node, frameworkArg)

\* the text an object holds under a key
ValueAt(components, key) ==
    components[CHOOSE i \in 1..Len(components) : components[i].key = key].value

HasKey(components, key) == \E i \in 1..Len(components) : components[i].key = key

\* a result of convertFigmaToCode is a normal result, not a failure
Returned(r) == r # None

\* two kept nodes share a file key and their generated texts differ
SlugCollision ==
    \E i, j \in 1..Len(ValidNodes) :
        /\ i < j
        /\ KeyOf(ValidNodes[i]) = KeyOf(ValidNodes[j])
        /\ CodeOf(ValidNodes[i]) # CodeOf(ValidNodes[j])

\* C3 as claimed: under a shared file name the map holds the text generated
\* from the first node of that slug
C3_FirstWins ==
    \A r \in 1..Len(results) :
        /\ Returned(results[r])
        /\ \A i \in 1..Len(ValidNodes) :
              (\A j \in 1..(i - 1) : KeyOf(ValidNodes[j]) # KeyOf(ValidNodes[i]))
              => /\ HasKey(results[r][1].components, KeyOf(ValidNodes[i]))
                 /\ ValueAt(results[r][1].components, KeyOf(ValidNodes[i]))
                        = CodeOf(ValidNodes[i])

\* C3 amended: no error is raised, and under a shared file name the map holds
\* the text generated from the last node of that slug
C3_LastWins ==
    \A r \in 1..Len(results) :
        /\ Returned(results[r])
        /\ \A i \in 1..Len(ValidNodes) :
              (\A j \in (i + 1)..Len(ValidNodes) : KeyOf(ValidNodes[j]) # KeyOf(ValidNodes[i]))
              => /\ HasKey(results[r][1].components, KeyOf(ValidNodes[i]))
                 /\ ValueAt(results[r][1].components, KeyOf(ValidNodes[i]))
                        = CodeOf(ValidNodes[i])

C3_Witness == results # <<>> /\ SlugCollision

\* the slugs the re-export statements of a manifest reference, in order:
\* what stands between " } from './" and "';"
RECURSIVE UpTo(_, _)
UpTo(tokens, closers) ==
    IF tokens = <<>> \/ Head(tokens) \in closers THEN <<>>
    ELSE <<Head(tokens)>> \o UpTo(Tail(tokens), closers)

RECURSIVE ExportedSlugs(_)
ExportedSlugs(index) ==
    IF index = <<>> THEN <<>>
    ELSE IF Head(index) = " } from './"
         THEN <<UpTo(Tail(index), {"';"})>> \o ExportedSlugs(Tail(index))
         ELSE ExportedSlugs(Tail(index))

\* the number of re-export statements of a manifest
StatementCount(index) ==
    Cardinality({k \in 1..Len(index) : index[k] = "export { default as "})

\* a sequence without its repeated elements, the first occurrence kept
RECURSIVE Distinct(_)
Distinct(s) ==
    IF s = <<>> THEN <<>>
    ELSE LET front == Distinct(SubSeq(s, 1, Len(s) - 1))
             last == s[Len(s)]
         IN  IF \E i \in 1..Len(front) : front[i] = last THEN front ELSE Append(front, last)

ValidSlugs == [i \in 1..Len(ValidNodes) |-> SlugOf(ValidNodes[i])]

\* C4 as claimed: one re-export statement per distinct fileSlug, in encounter
\* order, a later node of a slug already seen adding none
C4_OnePerDistinctSlug ==
    \A r \in 1..Len(results) :
        Returned(results[r]) =>
            /\ ExportedSlugs(results[r][1].index) = Distinct(ValidSlugs)
            /\ StatementCount(results[r][1].index) = Len(Distinct(ValidSlugs))

\* C4 amended: one re-export statement per kept node (visible !== false and a
\* non-empty name), a node whose fileSlug was already seen included, each
\* referencing './{fileSlug}' of its node, in the encounter order of the nodes
C4_OnePerValidNode ==
    \A r \in 1..Len(results) :
        Returned(results[r]) =>
            /\ ExportedSlugs(results[r][1].index) = ValidSlugs
            /\ StatementCount(results[r][1].index) = Len(ValidNodes)

C4_Witness ==
    /\ results # <<>>
    /\ results[1] # None
    /\ \E i, j \in 1..Len(ValidNodes) : i < j /\ ValidSlugs[i] = ValidSlugs[j]

\* C5: every generated component comes from a COMPONENT or FRAME node whose
\* visible flag is not false
C5_OnlyVisibleQualifying ==
    \A i \in 1..Len(generatedFrom) :
        /\ generatedFrom[i].type \in {"COMPONENT", "FRAME"}
        /\ generatedFrom[i].visible # "false"

\* the child entries of a rendered text: the kind of each entry and what it
\* carries between its opening and its closing
ParagraphOpeners == {"      <p>", "    <p>", "  <p>"}
PlaceholderOpeners == {"      <div>{/* ", "    <div><!-- ", "  <div><!-- "}
EntryClosers == {"</p>", " */}</div>", " --></div>"}

RECURSIVE ChildEntries(_)
ChildEntries(code) ==
    IF code = <<>> THEN <<>>
    ELSE IF Head(code) \in ParagraphOpeners
         THEN <<[kind |-> "text", payload |-> UpTo(Tail(code), EntryClosers)]>>
              \o ChildEntries(Tail(code))
         ELSE IF Head(code) \in PlaceholderOpeners
              THEN <<[kind |-> "placeholder", payload |-> UpTo(Tail(code), EntryClosers)]>>
                   \o ChildEntries(Tail(code))
              ELSE ChildEntries(Tail(code))

\* the rendered node of a run of the renderers and its rendered text
TopNode == figmaData.nodes[1]
RenderedCode(r) == results[r][1].components[1].value
HiddenKids == {i \in 1..Len(TopNode.children) : TopNode.children[i].visible = "false"}
ShownKids == (1..Len(TopNode.children)) \ HiddenKids

\* what a child entry carries when it renders the given child
Carries(entry, child) ==
    IF child.type = "TEXT"
    THEN /\ entry.kind = "text"
         /\ entry.payload = (IF child.textContent # None /\ child.textContent[1] # <<>>
                             THEN child.textContent[1] ELSE child.name)
    ELSE entry.kind = "placeholder" /\ entry.payload = child.name

\* C6: in every dialect a direct child with visible === false contributes
\* nothing to the markup: there are only as many child entries as children
\* that are not hidden, each entry renders one of those, and no entry
\* carries a hidden child's name
C6_HiddenChildrenNotRendered ==
    \A r \in 1..Len(results) :
        (Returned(results[r]) /\ Len(figmaData.nodes) = 1
            /\ Len(results[r][1].components) = 1) =>
            LET entries == ChildEntries(RenderedCode(r))
            IN  /\ Len(entries) = Cardinality(ShownKids)
                /\ \A e \in 1..Len(entries) :
                      \E i \in ShownKids : Carries(entries[e], TopNode.children[i])
                /\ \A h \in HiddenKids : \A e \in 1..Len(entries) :
                      entries[e].payload # TopNode.children[h].name

C6_Witness ==
    /\ results # <<>>
    /\ Len(figmaData.nodes) = 1
    /\ Len(results[1][1].components) = 1
    /\ \E h \in HiddenKids : TopNode.children[h].textContent # None
    /\ ShownKids # {}

\* the places where a placeholder ${identifier} stands in a text: from the
\* "$" at i to the "}" after the last identifier character at j
PlaceholderAt(text, i, j) ==
    /\ i >= 1 /\ j >= i + 2 /\ j + 1 <= Len(text)
    /\ text[i] = "$" /\ text[i + 1] = "{" /\ text[j + 1] = "}"
    /\ \A k \in (i + 2)..j : IsWordChar(text[k])

TextOfKid(c) ==
    IF TopNode.children[c].textContent = None THEN <<>>
    ELSE TopNode.children[c].textContent[1]

\* the direct children of kind TEXT
TextKids == {c \in 1..Len(TopNode.children) : TopNode.children[c].type = "TEXT"}

\* the placeholders of a child: <<i, j>> with PlaceholderAt(text, i, j)
PlaceholdersOf(c) ==
    { ij \in (1..Len(TextOfKid(c))) \X (1..Len(TextOfKid(c))) :
        PlaceholderAt(TextOfKid(c), ij[1], ij[2]) }

\* where an identifier occurs as a placeholder: <<child, position>> pairs,
\* over the direct children of kind TEXT
Occurrences(id) ==
    UNION { { <<c, ij[1]>> : ij \in { p \in PlaceholdersOf(c) :
                                        SubSeq(TextOfKid(c), p[1] + 2, p[2]) = id } } :
            c \in TextKids }

PlaceholderIds ==
    UNION { { SubSeq(TextOfKid(c), ij[1] + 2, ij[2]) : ij \in PlaceholdersOf(c) } :
            c \in TextKids }

Earlier(o1, o2) == o1[1] < o2[1] \/ (o1[1] = o2[1] /\ o1[2] < o2[2])

FirstSeen(id) ==
    CHOOSE o \in Occurrences(id) : \A o2 \in Occurrences(id) : o = o2 \/ Earlier(o, o2)

\* the inputs a rendered text declares: the identifiers before each
\* "?: string | number;" (react) and ": String," (vue), after each
\* "export let " (svelte)
RECURSIVE WordBefore(_, _)
WordBefore(code, k) ==
    IF k < 1 \/ ~IsWordChar(code[k]) THEN <<>>
    ELSE Append(WordBefore(code, k - 1), code[k])

DeclaredInputs(code) ==
    LET marks == SelectSeq([k \in 1..Len(code) |-> k],
                     LAMBDA k : code[k] \in {"?: string | number;", ": String,", "export let "})
    IN  [m \in 1..Len(marks) |->
            IF code[marks[m]] = "export let "
            THEN UpTo(SubSeq(code, marks[m] + 1, Len(code)), {";"})
            ELSE WordBefore(code, marks[m] - 1)]

\* a sequence lists exactly the placeholder identifiers of the direct TEXT
\* children, each once, in first-seen order
IsTemplateInputs(inputs) ==
    /\ {inputs[p] : p \in 1..Len(inputs)} = PlaceholderIds
    /\ \A p, q \in 1..Len(inputs) : p # q => inputs[p] # inputs[q]
    /\ \A p, q \in 1..Len(inputs) :
          p < q => Earlier(FirstSeen(inputs[p]), FirstSeen(inputs[q]))

\* C7: the template inputs are exactly the distinct ${identifier} of the
\* direct TEXT children, each once, in first-seen order, and every dialect
\* declares one input per identifier
C7_TemplateInputs ==
    \A r \in 1..Len(results) :
        (Returned(results[r]) /\ Len(figmaData.nodes) = 1
            /\ Len(results[r][1].components) = 1) =>
            /\ IsTemplateInputs(DeclaredInputs(RenderedCode(r)))
            /\ DeclaredInputs(RenderedCode(r)) = extractPropsFromNode(TopNode)

C7_Witness ==
    /\ results # <<>>
    /\ Len(figmaData.nodes) = 1
    /\ Len(results[1][1].components) = 1
    /\ Len(DeclaredInputs(RenderedCode(1))) >= 2
    /\ \E c \in 1..Len(TopNode.children) :
          TopNode.children[c].type # "TEXT" /\ TextOfKid(c) # <<>>
    /\ \E c \in 1..Len(TopNode.children) :
          TopNode.children[c].type = "TEXT"
          /\ Len(matchPlaceholders(TextOfKid(c))) > Cardinality(
                 {matchPlaceholders(TextOfKid(c))[k] :
                     k \in 1..Len(matchPlaceholders(TextOfKid(c)))})

\* two calls of the same function on the same nodes with the same setting
SameCall(c, d) == c.fn = d.fn /\ c.nodes = d.nodes /\ c.setting = d.setting

EmptyIndex(framework) ==
    IF framework = "vue" THEN <<"// Vue Components\n", "\n">>
    ELSE <<"// ", framework, " Components\n", "\n">>

\* C9 as claimed: with no qualifying node the call signals a failure instead
\* of returning a result, and with one it returns a result
C9_FailsWithoutNodes ==
    \A r \in 1..Len(results) :
        (ValidNodes = <<>>) <=> ~Returned(results[r])

\* C9 amended: convertFigmaToCode never signals a failure; with no
\* qualifying node it returns a result whose components map is empty and
\* whose manifest holds the header line only
C9_EmptyResultWithoutNodes ==
    \A r \in 1..Len(results) :
        /\ Returned(results[r])
        /\ ValidNodes = <<>> =>
              /\ results[r][1].components = <<>>
              /\ results[r][1].index = EmptyIndex(frameworkArg)
        /\ ValidNodes # <<>> => results[r][1].components # <<>>

C9_Witness ==
    /\ results # <<>>
    /\ ValidNodes = <<>>
    /\ figmaData.nodes # <<>>

\* the extension of a dialect: the one DesignToCode.generateComponent uses
ExtensionOf(framework, typescript) ==
    CASE framework = "react" -> IF typescript THEN <<"tsx">> ELSE <<"jsx">>
      [] framework = "vue" -> <<"vue">>
      [] framework = "svelte" -> <<"svelte">>

\* C10: every generated file is named {fileSlug}.{ext}, the extension fixed
\* by the dialect (and, for react, the typescript flag), for
\* convertFigmaToCode and for DesignToCode.generateComponent
C10_FileNamePerDialect ==
    /\ \A r \in 1..Len(results) :
          Returned(results[r]) =>
              \A k \in 1..Len(results[r][1].components) :
                  \E i \in 1..Len(ValidNodes) :
                      results[r][1].components[k].key
                          = SlugOf(ValidNodes[i]) \o <<".">> \o ExtensionOf(frameworkArg, TRUE)
    /\ \A d \in 1..Len(designs) :
          \A i \in 1..Len(designs[d]) :
              designs[d][i].filename
                  = SlugOf(figmaData.nodes[i]) \o <<".">>
                    \o ExtensionOf(converter.framework, converter.typescript)

\* a text holds the tokens of another, one after the other
Holds(code, part) ==
    \E k \in 0..(Len(code) - Len(part)) : SubSeq(code, k + 1, k + Len(part)) = part

Mentions(code, token) == \E k \in 1..Len(code) : code[k] = token

\* the texts DesignToCode.generateComponent returned for the one node
DesignCodes == { designs[d][1].code : d \in 1..Len(designs) }

\* the first fill of the node is a SOLID paint carrying a colour
HasSolidFirstFill(node) ==
    /\ Len(node.fills) > 0
    /\ node.fills[1].type = "SOLID"
    /\ node.fills[1].color # None

\* C11: with a non-empty fills list whose first fill is not SOLID or has no
\* colour, the property record has no background colour and no style carries
\* a background token or a background-color entry
C11_NoBackgroundWithoutSolidFill ==
    (designs # <<>> /\ Len(TopNode.fills) > 0 /\ ~HasSolidFirstFill(TopNode)) =>
        /\ extractProps(TopNode).backgroundColor = None
        /\ \A code \in DesignCodes :
              ~Mentions(code, "bg-[") /\ ~Mentions(code, "background-color")

\* the integer nearest to a length given in tenths, a half going up
NearestOfTenths(t) == CHOOSE n \in 0..((t \div 10) + 1) : 10 * n - t \in -4..5

\* the integer nearest to a quarter of n, a half going up
NearestQuarter(n) == CHOOSE q \in 0..((n \div 4) + 1) : 4 * q - n \in -1..2

\* the font size of the property record: 14 for a text without one
FontSizeOf(node) ==
    IF node.characters = None \/ node.characters[1] = <<>> THEN None
    ELSE IF node.fontSize = None \/ node.fontSize[1] = 0 THEN Some(14)
    ELSE node.fontSize

\* the utility classes a node calls for, the font-size one as given
ClassesFor(node, fontClass) ==
    (IF node.absoluteBoundingBox # None
     THEN << <<"w-[", ToString(NearestOfTenths(node.absoluteBoundingBox[1].width)), "px]">>,
             <<"h-[", ToString(NearestOfTenths(node.absoluteBoundingBox[1].height)), "px]">> >>
     ELSE <<>>)
    \o (IF Len(node.fills) > 0
        THEN << <<"bg-[">> \o extractProps(node).backgroundColor[1] \o <<"]">> >>
        ELSE <<>>)
    \o (IF FontSizeOf(node) # None THEN <<fontClass>> ELSE <<>>)

PixelClass(size) == <<"text-", "[", ToString(size), "px]">>
ScaleClass(size) == <<"text-", ToString(NearestQuarter(size))>>

\* the tokens that open a utility class, as they stand in a text
ClassOpeners == {"w-[", "h-[", "bg-[", "text-"}
OpenersIn(code) == SelectSeq(code, LAMBDA t : t \in ClassOpeners)
FirstsOf(classes) == [k \in 1..Len(classes) |-> classes[k][1]]

\* a text carries exactly the given utility classes, in their order
CarriesClasses(code, classes) ==
    /\ Holds(code, joinWith(classes, <<" ">>))
    /\ OpenersIn(code) = FirstsOf(classes)

\* C12 as claimed: the font-size class is text-[{fontSize}px] when
\* fontSize > 16 and text-{round(fontSize/4)} otherwise, after the width,
\* height and background classes, a missing field adding none
C12_FontClassByFontSize ==
    (converter.tailwind /\ designs # <<>>) =>
        \A code \in DesignCodes :
            CarriesClasses(code,
                ClassesFor(TopNode,
                    IF FontSizeOf(TopNode) = None THEN <<>>
                    ELSE IF FontSizeOf(TopNode)[1] > 16
                         THEN PixelClass(FontSizeOf(TopNode)[1])
                         ELSE ScaleClass(FontSizeOf(TopNode)[1])))

\* C12 amended: the font-size class is text-[{fontSize}px] when
\* round(fontSize/4) > 16 and text-{round(fontSize/4)} otherwise, after the
\* width, height and background classes, a missing field adding none
C12_FontClassByScale ==
    (converter.tailwind /\ designs # <<>>) =>
        \A code \in DesignCodes :
            CarriesClasses(code,
                ClassesFor(TopNode,
                    IF FontSizeOf(TopNode) = None THEN <<>>
                    ELSE IF NearestQuarter(FontSizeOf(TopNode)[1]) > 16
                         THEN PixelClass(FontSizeOf(TopNode)[1])
                         ELSE ScaleClass(FontSizeOf(TopNode)[1])))

C12_Witness ==
    /\ converter.tailwind
    /\ designs # <<>>
    /\ FontSizeOf(TopNode) = Some(20)
    /\ TopNode.absoluteBoundingBox = None
    /\ Len(TopNode.fills) > 0

\* the value a style entry gives a key: what stands between the key with
\* its separator and the unit "px", wherever the key stands in the text
EntryValues(code, key) ==
    { UpTo(SubSeq(code, k + 2, Len(code)), {"px"}) :
        k \in { i \in 1..Len(code) : code[i] = key } }

\* the texts convertFigmaToCode returned for the one node
ConvertCodes ==
    { results[r][1].components[1].value :
        r \in { i \in 1..Len(results) : Len(results[i][1].components) > 0 } }

\* C13: every width and height emitted in a style (utility classes, style
\* map, inline style) is the bounding-box value rounded to the nearest
\* integer, never the fractional value itself
C13_DimensionsRounded ==
    TopNode.absoluteBoundingBox # None =>
        LET w == <<ToString(NearestOfTenths(TopNode.absoluteBoundingBox[1].width))>>
            h == <<ToString(NearestOfTenths(TopNode.absoluteBoundingBox[1].height))>>
        IN  /\ \A code \in DesignCodes :
                  /\ EntryValues(code, "width") \subseteq {w}
                  /\ EntryValues(code, "height") \subseteq {h}
                  /\ converter.tailwind =>
                        Holds(code, <<"w-[">> \o w \o <<"px]", " ", "h-[">> \o h \o <<"px]">>)
            /\ \A code \in ConvertCodes :
                  Holds(code, <<"width: ">> \o w \o <<"px; height: ">> \o h \o <<"px;">>)

\* the tokens that open a width or height entry in a style
DimensionOpeners == {"w-[", "h-[", "width", "height", "width: "}

\* C14: a property record without dimensions leaves every rendered text
\* without a width or height entry, and a property record with a background
\* hex has that hex in the rendered text of every dialect and styling mode
C14_StyleComplete ==
    /\ TopNode.absoluteBoundingBox = None =>
          \A code \in DesignCodes \cup ConvertCodes :
              \A t \in DimensionOpeners : ~Mentions(code, t)
    /\ extractProps(TopNode).backgroundColor # None =>
          \A code \in DesignCodes :
              Holds(code, extractProps(TopNode).backgroundColor[1])

\* the displayName of a raw name, letter by letter: a separator starts a
\* word, the first character of a word goes to upper case and the others to
\* lower case, and only [A-Za-z0-9] is kept
RECURSIVE DisplayNameFrom(_, _)
DisplayNameFrom(name, atStart) ==
    IF name = <<>> THEN <<>>
    ELSE IF IsSeparator(Head(name)) THEN DisplayNameFrom(Tail(name), TRUE)
    ELSE LET c == IF atStart THEN ToUpper(Head(name)) ELSE ToLower(Head(name))
         IN  SelectSeq(c, IsAlnum) \o DisplayNameFrom(Tail(name), FALSE)

DisplayNameOf(name) == DisplayNameFrom(name, TRUE)

\* the names a text declares: the identifier before each of the given tokens
NamesBefore(code, closers) ==
    { WordBefore(code, k - 1) : k \in { i \in 1..Len(code) : code[i] \in closers } }

\* C15: the component name declared in the generated source is the
\* displayName of the raw node name, for the convertFigmaToCode renderers
\* (react and vue declare one) and for DesignToCode.generateComponent (the
\* file name stem and the react declaration)
C15_DeclaredNameIsDisplayName ==
    /\ \A code \in ConvertCodes :
          NamesBefore(code, {": React.FC<", "',"}) \subseteq {DisplayNameOf(TopNode.name)}
    /\ \A d \in 1..Len(designs) :
          /\ NamesBefore(designs[d][1].filename, {"."}) = {DisplayNameOf(TopNode.name)}
          /\ NamesBefore(designs[d][1].code, {";\nexport { "})
                \subseteq {DisplayNameOf(TopNode.name)}

\* the JSON files of the directory, in the order of the listing
JsonFileNames ==
    IF argv.directory = None THEN <<>>
    ELSE LET found == SelectSeq(argv.directory[1], LAMBDA f : endsWithJson(f.name))
         IN  [k \in 1..Len(found) |-> found[k].name]

\* what holds in every state of the batch command: the loop takes the JSON
\* files in the order of the listing, nothing is counted that was not
\* generated, an exit code comes only before the first file is taken (from
\* the dispatch of main or from a missing directory), and a command that
\* is through the loop has taken every file and printed its report
BatchKeepsGoing ==
    /\ \E k \in 0..Len(JsonFileNames) : visited = SubSeq(JsonFileNames, 1, k)
    /\ componentCount <= Len(generatedFrom)
    /\ exitCode # None =>
          /\ visited = <<>>
          /\ argv.entry = "main" \/ argv.directory = None
    /\ (pc = "done" /\ JsonFileNames # <<>>) =>
          /\ visited = JsonFileNames
          /\ report[Len(report)] = Line("Batch complete", <<>>)
          /\ exitCode = None

\* a file that holds the whole text of a component
IsWhole(file) == ~file.value.cut /\ file.value.text # <<>>

\* what the claim says of every step of the batch command: the files on
\* disk stay where they are, a component that is written stays written
\* (its file goes on holding the whole text of a component), and the count
\* of components does not go down
BatchKeepsWritten ==
    /\ Len(disk') >= Len(disk)
    /\ \A k \in 1..Len(disk) :
          /\ disk'[k].key = disk[k].key
          /\ IsWhole(disk[k]) => IsWhole(disk'[k])
    /\ componentCount' >= componentCount

\* C19 as claimed: a failure on one JSON file does not stop the batch: once
\* handleBatch has taken a file, the loop takes every JSON file in the
\* order of the listing, what was written before a failure stays written
\* and counted, and the command ends with the report "Batch complete" and
\* no exit code
C19_BatchSurvivesFailures == []BatchKeepsGoing /\ [][BatchKeepsWritten]_vars

\* C16: a converter constructed without a tailwind option, as the batch
\* command constructs it, is in the CSS styling mode: its tailwind flag is
\* off and every component it writes carries the CSS class, not utility
\* classes
C16_TailwindOffByDefault ==
    /\ pc = "batchWalking" => ~converter.tailwind
    /\ \A k \in 1..Len(disk) : Mentions(disk[k].value.text, "component-auto-generated")

\* the direct children of the rendered node that are not hidden, in the
\* order the node lists them
ShownInOrder == SelectSeq(TopNode.children, LAMBDA c : c.visible # "false")

\* what a grandchild of the rendered node would show if it were rendered
GrandchildTexts ==
    UNION { {TopNode.children[i].children[g].name} \cup
            (IF TopNode.children[i].children[g].textContent = None THEN {}
             ELSE {TopNode.children[i].children[g].textContent[1]}) :
            <<i, g>> \in { <<i, g>> \in (1..MaxKids) \X (1..MaxKids) :
                             /\ i <= Len(TopNode.children)
                             /\ g <= Len(TopNode.children[i].children) } }

\* C17: for a node with children, in every dialect, the markup has exactly
\* one child entry per direct child that is not hidden, in the children's
\* order: entry k is a paragraph with the text content (or the name) of the
\* k-th such child when it is a TEXT, otherwise a placeholder annotated
\* with its name; the node's own text paragraph is not emitted and no entry
\* shows a grandchild
C17_OneEntryPerShownChildInOrder ==
    \A r \in 1..Len(results) :
        (Returned(results[r]) /\ Len(figmaData.nodes) = 1
            /\ Len(results[r][1].components) = 1 /\ TopNode.children # <<>>) =>
            LET entries == ChildEntries(RenderedCode(r))
            IN  /\ Len(entries) = Len(ShownInOrder)
                /\ \A k \in 1..Len(entries) : Carries(entries[k], ShownInOrder[k])
                /\ ~Mentions(RenderedCode(r), "<p>")
                /\ \A k \in 1..Len(entries) : entries[k].payload \notin GrandchildTexts

C17_Witness ==
    /\ results # <<>>
    /\ Returned(results[1])
    /\ Len(figmaData.nodes) = 1
    /\ Len(results[1][1].components) = 1
    /\ Len(ShownInOrder) = 2
    /\ ShownInOrder[1].type = "GROUP" /\ ShownInOrder[1].children # <<>>
    /\ ShownInOrder[2].type = "TEXT" /\ ShownInOrder[2].textContent = None
    /\ Len(ChildEntries(RenderedCode(1))) = 2

\* the places of a document tree: a place is the list of child positions
\* that leads to it from the document node
RECURSIVE PlacesBelow(_)
PlacesBelow(node) ==
    {<<>>} \cup UNION { { <<i>> \o p : p \in PlacesBelow(node.children[i]) } :
                         i \in 1..Len(node.children) }

RECURSIVE NodeAt(_, _)
NodeAt(node, place) ==
    IF place = <<>> THEN node ELSE NodeAt(node.children[Head(place)], Tail(place))

\* document order: a place comes before the places below it and before
\* the places of its later siblings
IsPrefix(p, q) == Len(p) <= Len(q) /\ SubSeq(q, 1, Len(p)) = p
ComesBefore(p, q) ==
    /\ p # q
    /\ \/ IsPrefix(p, q)
       \/ \E k \in 1..Len(p) : /\ k <= Len(q)
                               /\ SubSeq(p, 1, k - 1) = SubSeq(q, 1, k - 1)
                               /\ p[k] < q[k]

\* the places walkFigmaTree is to collect: a COMPONENT or FRAME with no
\* hidden node on the way from the document to it, itself included
ToCollect(document) ==
    { p \in PlacesBelow(document) :
        /\ NodeAt(document, p).type \in {"COMPONENT", "FRAME"}
        /\ \A k \in 0..Len(p) : NodeAt(document, SubSeq(p, 1, k)).visible # "false" }

RankOf(document, p) == Cardinality({ q \in ToCollect(document) : ComesBefore(q, p) }) + 1

Fetched == "raw" \in DOMAIN figmaData
KeptNodes == SelectSeq(figmaData.nodes, LAMBDA n : n.visible # "false" /\ n.name # <<>>)

\* C18: the nodes fetchFigmaFile returns are the COMPONENT and FRAME nodes
\* of the document that are not hidden and not under a hidden node, each
\* once, in document order (a node before its descendants and before its
\* later siblings and their descendants); the manifest lists the nodes the
\* conversion keeps in that order, and the keys of the components map are
\* their file names in that order, a file name at its first node
C18_CollectedInDocumentOrder ==
    Fetched =>
        /\ Len(figmaData.nodes) = Cardinality(ToCollect(figmaData.raw))
        /\ \A p \in ToCollect(figmaData.raw) :
              figmaData.nodes[RankOf(figmaData.raw, p)] = NodeAt(figmaData.raw, p)
        /\ \A i, j \in 1..Len(figmaData.nodes) :
              i < j => figmaData.nodes[i].id # figmaData.nodes[j].id
        /\ results # <<>> =>
              /\ ExportedSlugs(results[1][1].index)
                    = [k \in 1..Len(KeptNodes) |-> SlugOf(KeptNodes[k])]
              /\ [k \in 1..Len(results[1][1].components) |-> results[1][1].components[k].key]
                    = Distinct([k \in 1..Len(KeptNodes) |-> KeyOf(KeptNodes[k])])

C18_Witness ==
    /\ Fetched
    /\ results # <<>>
    /\ Len(figmaData.raw.children) = 2
    /\ Len(figmaData.raw.children[1].children) = 1
    /\ Len(figmaData.nodes) = 3
    /\ figmaData.nodes[2] = figmaData.raw.children[1].children[1]
    /\ figmaData.nodes[3] = figmaData.raw.children[2]
    /\ Len(ExportedSlugs(results[1][1].index)) = 3

\* what is wrong with a command line of cli.ts, from its options alone
FigmaMissing == argv.figma = None \/ argv.figma = Some(<<>>)
TokenMissing ==
    /\ argv.token = None \/ argv.token = Some(<<>>)
    /\ argv.envToken = None \/ argv.envToken = Some(<<>>)
FrameworkUnknown ==
    argv.framework \notin {None, Some(""), Some("react"), Some("vue"), Some("svelte")}

\* the last thing main printed is the error of a failed fetchFigmaFile
FetchFailed ==
    /\ report # <<>>
    /\ report[Len(report)].text = "Error:"
    /\ report[Len(report)].file \in
          {<<"Invalid Figma token">>, <<"Figma file not found">>, <<"500">>, <<"none">>}

IndexKey == <<"index", ".", "ts">>
PlaceOnDisk(key) == CHOOSE k \in 1..Len(disk) : disk[k].key = key

\* C20: once main has looked at a command line without --figma, without a
\* token or with an unknown framework, and once fetchFigmaFile has thrown,
\* the exit code is 1 and nothing is on disk; no other exit code is used;
\* and when index.ts is on disk, every file of the components map is on
\* disk, was written before it, and the loop has nothing left to write
C20_FailuresWriteNothingIndexLast ==
    /\ (pc # "start" /\ (FigmaMissing \/ TokenMissing \/ FrameworkUnknown)) =>
          pc = "exited" /\ exitCode = Some(1) /\ disk = <<>>
    /\ FetchFailed => pc = "exited" /\ exitCode = Some(1) /\ disk = <<>>
    /\ exitCode \in {None, Some(1)}
    /\ pc = "exited" <=> exitCode = Some(1)
    /\ HasKey(disk, IndexKey) =>
          /\ todo = <<>>
          /\ \A k \in 1..Len(results[1][1].components) :
                /\ HasKey(disk, results[1][1].components[k].key)
                /\ PlaceOnDisk(results[1][1].components[k].key) < PlaceOnDisk(IndexKey)

C20_Witness ==
    /\ pc = "exited"
    /\ exitCode = Some(1)
    /\ FetchFailed
    /\ report[Len(report)].file = <<"Figma file not found">>
    /\ outDir
    /\ disk = <<>>

\* the places of a document of the given kind, hidden or not
PlacesOfType(document, type) ==
    { p \in PlacesBelow(document) : NodeAt(document, p).type = type }

SomeNodeHidden(document) ==
    \E p \in PlacesBelow(document) : NodeAt(document, p).visible = "false"

\* C21: in what fetchFigmaFile returns, componentCount and frameCount are
\* the numbers of COMPONENT and of FRAME nodes of the whole document, the
\* hidden ones included; the collected nodes are never more than their sum,
\* and exactly as many when no node of the document is hidden
C21_CollectedAtMostCounted ==
    Fetched =>
        /\ figmaData.componentCount = Cardinality(PlacesOfType(figmaData.raw, "COMPONENT"))
        /\ figmaData.frameCount = Cardinality(PlacesOfType(figmaData.raw, "FRAME"))
        /\ Len(figmaData.nodes) <= figmaData.componentCount + figmaData.frameCount
        /\ ~SomeNodeHidden(figmaData.raw) =>
              Len(figmaData.nodes) = figmaData.componentCount + figmaData.frameCount

C21_Witness ==
    /\ Fetched
    /\ SomeNodeHidden(figmaData.raw)
    /\ figmaData.componentCount = 2
    /\ figmaData.frameCount = 1
    /\ Len(figmaData.nodes) = 1
    /\ \E p \in PlacesOfType(figmaData.raw, "COMPONENT") :
          /\ NodeAt(figmaData.raw, p).visible = "absent"
          /\ \A k \in 1..Len(figmaData.nodes) : figmaData.nodes[k] # NodeAt(figmaData.raw, p)

\* two of the nodes the conversion keeps have the same slug
SharedSlug ==
    \E i, j \in 1..Len(KeptNodes) :
        i < j /\ SlugOf(KeptNodes[i]) = SlugOf(KeptNodes[j])

\* C22: in every result the manifest and the components map agree: each
\* re-export statement names './{slug}' of a key '{slug}.tsx' of the map,
\* each key of the map is named by a statement, and there are at most as
\* many keys as statements, fewer exactly when two kept nodes share a slug
C22_ManifestAgreesWithMap ==
    \A r \in 1..Len(results) :
        Returned(results[r]) =>
            LET slugs == ExportedSlugs(results[r][1].index)
                components == results[r][1].components
                statements == StatementCount(results[r][1].index)
            IN  /\ Len(slugs) = statements
                /\ \A k \in 1..Len(slugs) :
                      HasKey(components, slugs[k] \o <<".", "tsx">>)
                /\ \A c \in 1..Len(components) :
                      \E k \in 1..Len(slugs) :
                          components[c].key = slugs[k] \o <<".", "tsx">>
                /\ \A c, d \in 1..Len(components) :
                      c # d => components[c].key # components[d].key
                /\ Len(components) <= statements
                /\ Len(components) < statements <=> SharedSlug

C22_Witness ==
    /\ results # <<>>
    /\ Returned(results[1])
    /\ SharedSlug
    /\ Len(results[1][1].components) = 1
    /\ StatementCount(results[1][1].index) = 2
    /\ KeptNodes[1].name # KeptNodes[2].name
====
